---- MODULE Spec2Model ----
(***************************************************************************)
(* pointcloudconverter: the type-and-range conversion engine               *)
(* (util.py, io_utils.py, PointCloud.py), the field-name resolver, the     *)
(* codecs of the PointCloud class, the driver (main.py) and the writers    *)
(* that report their progress (custom_overwrites).                         *)
(*                                                                         *)
(* numpy computes the conversions in IEEE-754 binary32/binary64 and then   *)
(* casts; the values are therefore modelled exactly: a magnitude is a      *)
(* sequence of bits (least significant first, no leading zero), a number   *)
(* is sign * magnitude * 2^exponent, and every float operation rounds to   *)
(* nearest-even at the precision numpy uses for it.                        *)
(***************************************************************************)
EXTENDS Integers, Sequences, FiniteSets, TLC

VARIABLES
    array,      \* the array a conversion is applied to (e.g. self.colors)
    original,   \* the array as it was decoded, before any conversion
    result,     \* what the last conversion call did
    calls,      \* the conversion calls made so far
    names,      \* map_field_names: the raw field names handed in
    impl,       \* which copy of map_field_names runs
    idx,        \* how many names its loop has looked at
    mapping,    \* its mapping, role -> raw name or None
    returned,   \* whether it has returned the mapping
    points,     \* PointCloud.points
    colors,     \* PointCloud.colors
    intensities,\* PointCloud.intensities
    outcome,    \* how the last codec call on the PointCloud ended
    ops,        \* the codec calls made on the PointCloud so far
    lines,      \* the text of the .pts file
    file,       \* the .e57 / .las / .ply file a decoder is given
    written,    \* what the last encoder handed to its library
    potree,     \* write_potree: its position and its surroundings
    driver,     \* main.py: the arguments and how far execute has come
    stream      \* a writer that reports its progress: how far it has come

convVars == <<array, original, result, calls>>

fieldVars == <<names, impl, idx, mapping, returned>>

cloudVars == <<points, colors, intensities, outcome, ops>>

diskVars == <<lines, file, written>>

runVars == <<potree, driver, stream>>

vars ==
    <<array, original, result, calls, names, impl, idx, mapping, returned,
      points, colors, intensities, outcome, ops, lines, file, written, potree,
      driver, stream>>

\* an attribute that is None, and a record that is not in use
Unset == [dtype |-> "None", data |-> <<>>]

NotInUse == [kind |-> "idle"]

\* a PointCloud as __init__ leaves it
NewPointCloud ==
    /\ points = Unset
    /\ colors = Unset
    /\ intensities = Unset
    /\ outcome = NotInUse
    /\ ops = <<>>

DiskIdle == lines = <<>> /\ file = NotInUse /\ written = NotInUse

RunIdle == potree = NotInUse /\ driver = NotInUse /\ stream = NotInUse

(***************************************************************************)
(* Unbounded naturals (TLC's integers are 32 bit wide, the 32 and 64 bit   *)
(* numpy types and the float significands are not): a sequence of limbs    *)
(* of LimbBits bits, least significant first, without a leading zero limb. *)
(* Bit positions count from 1.                                             *)
(***************************************************************************)
Base == 2^15

Zeros(k) == [i \in 1..k |-> 0]

RECURSIVE BNorm(_)
BNorm(a) ==
    IF Len(a) = 0 THEN <<>>
    ELSE IF a[Len(a)] # 0 THEN SubSeq(a, 1, Len(a))
    ELSE BNorm(SubSeq(a, 1, Len(a) - 1))

RECURSIVE NatToBig(_)
NatToBig(n) == IF n = 0 THEN <<>> ELSE <<n % Base>> \o NatToBig(n \div Base)

RECURSIVE BigToNat(_)
BigToNat(a) == IF Len(a) = 0 THEN 0 ELSE a[1] + Base * BigToNat(Tail(a))

RECURSIVE BitLen(_)
BitLen(n) == IF n = 0 THEN 0 ELSE 1 + BitLen(n \div 2)

LimbBits == BitLen(Base - 1)

\* number of significant bits
BLen(a) == IF Len(a) = 0 THEN 0 ELSE LimbBits * (Len(a) - 1) + BitLen(a[Len(a)])

BBit(a, i) ==
    LET q == (i - 1) \div LimbBits
        r == (i - 1) % LimbBits
    IN  IF i < 1 \/ q + 1 > Len(a) THEN 0 ELSE (a[q + 1] \div 2^r) % 2

\* a * k + c for k, c < Base
RECURSIVE BMulSmall(_, _, _, _)
BMulSmall(a, k, i, c) ==
    IF i > Len(a) THEN IF c = 0 THEN <<>> ELSE <<c>>
    ELSE LET v == a[i] * k + c
         IN  <<v % Base>> \o BMulSmall(a, k, i + 1, v \div Base)

\* a * 2^k
BShl(a, k) ==
    IF Len(a) = 0 THEN <<>>
    ELSE Zeros(k \div LimbBits) \o BMulSmall(a, 2^(k % LimbBits), 1, 0)

\* a \div 2^k
BShr(a, k) ==
    LET q == k \div LimbBits
        r == k % LimbBits
        n == Len(a) - q
    IN  IF k <= 0 THEN a
        ELSE IF n <= 0 THEN <<>>
        ELSE BNorm([i \in 1..n |->
                 (a[q + i] \div 2^r)
                 + (IF q + i + 1 <= Len(a)
                    THEN (a[q + i + 1] % 2^r) * 2^(LimbBits - r) ELSE 0)])

\* a % 2^k
BLow(a, k) ==
    LET q == k \div LimbBits
        r == k % LimbBits
        n == IF q + 1 < Len(a) THEN q + 1 ELSE Len(a)
    IN  IF k <= 0 THEN <<>>
        ELSE BNorm([i \in 1..n |-> IF i <= q THEN a[i] ELSE a[i] % 2^r])

Pow2Big(k) == BShl(<<1>>, k)

\* 2^k - 1
OnesBig(k) ==
    LET q == k \div LimbBits
        r == k % LimbBits
    IN  BNorm([i \in 1..(q + 1) |-> IF i <= q THEN Base - 1 ELSE 2^r - 1])

\* -1, 0, 1 as a < b, a = b, a > b
RECURSIVE BCmpFrom(_, _, _)
BCmpFrom(a, b, i) ==
    IF i = 0 THEN 0
    ELSE IF a[i] > b[i] THEN 1
    ELSE IF a[i] < b[i] THEN -1
    ELSE BCmpFrom(a, b, i - 1)

BCmp(a, b) ==
    IF Len(a) > Len(b) THEN 1
    ELSE IF Len(a) < Len(b) THEN -1
    ELSE BCmpFrom(a, b, Len(a))

RECURSIVE BAddC(_, _, _, _)
BAddC(a, b, i, c) ==
    IF i > Len(a) /\ i > Len(b)
    THEN IF c = 0 THEN <<>> ELSE <<c>>
    ELSE LET s == (IF i <= Len(a) THEN a[i] ELSE 0)
                  + (IF i <= Len(b) THEN b[i] ELSE 0) + c
         IN  <<s % Base>> \o BAddC(a, b, i + 1, s \div Base)

BAdd(a, b) == BAddC(a, b, 1, 0)

\* a - b for a >= b
RECURSIVE BSubC(_, _, _, _)
BSubC(a, b, i, c) ==
    IF i > Len(a) THEN <<>>
    ELSE LET d == a[i] - (IF i <= Len(b) THEN b[i] ELSE 0) - c
         IN  <<d % Base>> \o BSubC(a, b, i + 1, IF d < 0 THEN 1 ELSE 0)

BSub(a, b) == BNorm(BSubC(a, b, 1, 0))

RECURSIVE BMulFrom(_, _, _)
BMulFrom(a, b, i) ==
    IF i > Len(b) THEN <<>>
    ELSE BAdd(Zeros(i - 1) \o BMulSmall(a, b[i], 1, 0), BMulFrom(a, b, i + 1))

BMul(a, b) == IF Len(a) = 0 \/ Len(b) = 0 THEN <<>> ELSE BNorm(BMulFrom(a, b, 1))

\* long division, one bit of a at a time from bit i down to bit j:
\* <<quotient, remainder>>
RECURSIVE BDivFrom(_, _, _, _, _, _)
BDivFrom(a, b, i, j, q, r) ==
    IF i < j THEN <<q, r>>
    ELSE LET r2 == BMulSmall(r, 2, 1, BBit(a, i))
             ge == BCmp(r2, b) >= 0
         IN  BDivFrom(a, b, i - 1, j, BMulSmall(q, 2, 1, IF ge THEN 1 ELSE 0),
                      IF ge THEN BSub(r2, b) ELSE r2)

\* the bits from i down, one limb's worth at a time
RECURSIVE BDivChunks(_, _, _, _)
BDivChunks(a, b, i, qr) ==
    IF i = 0 THEN qr
    ELSE LET j == IF i > LimbBits THEN i - LimbBits + 1 ELSE 1
             step == BDivFrom(a, b, i, j, qr[1], qr[2])
         IN  IF Len(step) = 2 THEN BDivChunks(a, b, j - 1, step) ELSE step

BDivMod(a, b) ==
    IF BLen(a) < BLen(b) THEN <<<<>>, a>>
    ELSE LET i == BLen(a) - BLen(b) + 1
         IN  BDivChunks(a, b, i, <<<<>>, BShr(a, i)>>)

(***************************************************************************)
(* numpy scalar types.  np.issubdtype(t, np.integer / np.floating) is      *)
(* IsInteger / IsFloating; "bool" and "str" are the kinds neither test     *)
(* accepts.                                                                *)
(***************************************************************************)
SignedTypes == {"int8", "int16", "int32", "int64"}

UnsignedTypes == {"uint8", "uint16", "uint32", "uint64"}

IntTypes == SignedTypes \cup UnsignedTypes

FloatTypes == {"float32", "float64"}

OtherTypes == {"bool", "str"}

SupportedTypes == IntTypes \cup FloatTypes

AllTypes == SupportedTypes \cup OtherTypes

IsInteger(t) == t \in IntTypes

IsFloating(t) == t \in FloatTypes

Width(t) ==
    CASE t \in {"int8", "uint8"} -> 8
      [] t \in {"int16", "uint16"} -> 16
      [] t \in {"int32", "uint32", "float32"} -> 32
      [] OTHER -> 64

\* np.iinfo(t).max and -np.iinfo(t).min, as magnitudes
IinfoMax(t) == IF t \in SignedTypes THEN OnesBig(Width(t) - 1) ELSE OnesBig(Width(t))

IinfoMinMag(t) == IF t \in SignedTypes THEN Pow2Big(Width(t) - 1) ELSE <<>>

\* IEEE-754 binary32 / binary64: significand bits, largest and smallest
\* normal exponent
Precision(t) == IF t = "float32" THEN 24 ELSE 53

ExpMax(t) == IF t = "float32" THEN 127 ELSE 1023

ExpMin(t) == IF t = "float32" THEN -126 ELSE -1022

(***************************************************************************)
(* Numbers: sign * m * 2^e with m odd (or m = 0, e = 0), and the two       *)
(* non-finite classes.                                                     *)
(***************************************************************************)
\* number of low zero bits of a, a # 0
RECURSIVE LowZerosFrom(_, _)
LowZerosFrom(a, i) == IF BBit(a, i) = 1 THEN 0 ELSE 1 + LowZerosFrom(a, i + 1)

RECURSIVE LowZeroLimbs(_, _)
LowZeroLimbs(a, i) == IF a[i] # 0 THEN 0 ELSE 1 + LowZeroLimbs(a, i + 1)

LowZeros(a) ==
    LET z == LowZeroLimbs(a, 1)
    IN  LimbBits * z + LowZerosFrom(a, LimbBits * z + 1)

Num(neg, m, e) ==
    LET b == BNorm(m)
        z == LowZeros(b)
    IN  IF Len(b) = 0
        THEN [cls |-> "fin", neg |-> neg, m |-> <<>>, e |-> 0]
        ELSE [cls |-> "fin", neg |-> neg, m |-> BShr(b, z), e |-> e + z]

Inf(neg) == [cls |-> "inf", neg |-> neg, m |-> <<>>, e |-> 0]

NaN == [cls |-> "nan", neg |-> FALSE, m |-> <<>>, e |-> 0]

IsZero(x) == x.cls = "fin" /\ Len(x.m) = 0

\* the integer n (|n| < 2^31) and the integer of magnitude mag
IntNum(n) == Num(n < 0, NatToBig(IF n < 0 THEN -n ELSE n), 0)

MagNum(neg, mag) == Num(neg /\ Len(BNorm(mag)) > 0, mag, 0)

\* the magnitude of an integral finite number
MagOf(x) == BShl(x.m, x.e)

\* np.finfo(t).max
FinfoMax(t) == Num(FALSE, OnesBig(Precision(t)), ExpMax(t) - Precision(t) + 1)

\* round sign * m * 2^e to the nearest number of format t, ties to even,
\* with gradual underflow and overflow to infinity
RoundTo(neg, m0, e, t) ==
    LET m == BNorm(m0)
        p == Precision(t)
        top == e + BLen(m) - 1
        qn == top - p + 1
        qs == ExpMin(t) - p + 1
        q == IF qn > qs THEN qn ELSE qs
        d == q - e
        kept == BShr(m, d)
        up == BBit(m, d) = 1 /\ (Len(BLow(m, d - 1)) > 0 \/ BBit(m, d + 1) = 1)
        m2 == IF d <= 0 THEN m ELSE IF up THEN BAdd(kept, <<1>>) ELSE kept
        e2 == IF d <= 0 THEN e ELSE q
    IN  IF Len(m) = 0 THEN Num(neg, <<>>, 0)
        ELSE IF e2 + BLen(m2) - 1 > ExpMax(t) THEN Inf(neg)
        ELSE Num(neg, m2, e2)

\* astype(t) for a floating t
FCast(x, t) == IF x.cls = "fin" THEN RoundTo(x.neg, x.m, x.e, t) ELSE x

\* a * b computed in format t
FMul(a, b, t) ==
    IF a.cls = "nan" \/ b.cls = "nan" THEN NaN
    ELSE IF a.cls = "inf" \/ b.cls = "inf"
    THEN IF IsZero(a) \/ IsZero(b) THEN NaN ELSE Inf(a.neg # b.neg)
    ELSE RoundTo(a.neg # b.neg, BMul(a.m, b.m), a.e + b.e, t)

\* a / b computed in format t, b finite and not zero: exact before rounding
\* when b is a power of two, otherwise the quotient is developed two bits
\* beyond the precision and a sticky bit records a remainder
FDiv(a, b, t) ==
    IF a.cls = "nan" THEN NaN
    ELSE IF a.cls = "inf" THEN Inf(a.neg # b.neg)
    ELSE IF IsZero(a) THEN Num(a.neg # b.neg, <<>>, 0)
    ELSE IF b.m = <<1>> THEN RoundTo(a.neg # b.neg, a.m, a.e - b.e, t)
    ELSE LET w == Precision(t) + 2 + BLen(b.m) - BLen(a.m)
             s == IF w > 0 THEN w ELSE 0
             qr == BDivMod(BShl(a.m, s), b.m)
             sticky == IF Len(qr[2]) > 0 THEN 1 ELSE 0
         IN  RoundTo(a.neg # b.neg, BMulSmall(qr[1], 2, 1, sticky), a.e - b.e - s - 1, t)

\* the integer part, toward zero, as a magnitude
TruncMag(x) == IF x.e >= 0 THEN BShl(x.m, x.e) ELSE BShr(x.m, -x.e)

InIntRange(neg, mag, t) ==
    IF neg /\ Len(mag) > 0
    THEN BCmp(mag, IinfoMinMag(t)) <= 0
    ELSE BCmp(mag, IinfoMax(t)) <= 0

(***************************************************************************)
(* What the build leaves open.  A C cast of a float outside the target     *)
(* integer type's range is undefined: the builds of numpy wrap modulo      *)
(* 2^width, saturate, or store zero.  A float32 array times a Python int   *)
(* is computed in float32 when Python scalars are weak (numpy 2) and, with *)
(* value-based promotion (numpy 1), in float64 once the int needs 32 bits. *)
(***************************************************************************)
CastOutcomes == {"wrap", "saturate", "zero"}

Promotions == {"weak", "legacy"}

Builds == [cast : CastOutcomes, promo : Promotions]

\* the builds that can differ on a conversion from src to t: the cast when
\* t is an integer type, the promotion when a float32 array meets an int
\* of 32 bits or more
BuildsFor(src, t) ==
    [cast : IF IsInteger(t) THEN CastOutcomes ELSE {"wrap"},
     promo : IF src = "float32" /\ IsInteger(t) /\ Width(t) >= 32
             THEN Promotions ELSE {"weak"}]

\* the value whose two's-complement pattern of Width(t) bits is that of
\* sign * mag
WrapInt(neg, mag, t) ==
    LET w == Width(t)
        low == BLow(mag, w)
        pat == IF neg /\ Len(low) > 0 THEN BSub(Pow2Big(w), low) ELSE low
    IN  IF t \in SignedTypes /\ BCmp(pat, IinfoMax(t)) > 0
        THEN MagNum(TRUE, BSub(Pow2Big(w), pat))
        ELSE MagNum(FALSE, pat)

\* astype(t) for an integer t: truncation toward zero
CastInt(x, t, cast) ==
    IF x.cls = "fin" /\ InIntRange(x.neg, TruncMag(x), t)
    THEN MagNum(x.neg, TruncMag(x))
    ELSE IF x.cls = "nan" \/ cast = "zero" THEN MagNum(FALSE, <<>>)
    ELSE IF cast = "saturate" \/ x.cls = "inf"
    THEN IF x.neg THEN MagNum(TRUE, IinfoMinMag(t)) ELSE MagNum(FALSE, IinfoMax(t))
    ELSE WrapInt(x.neg, TruncMag(x), t)

(***************************************************************************)
(* Arrays and the results of a call.                                       *)
(***************************************************************************)
Array(t, data) == [dtype |-> t, data |-> data]

Returned(arr, warned) ==
    [kind |-> "array", dtype |-> arr.dtype, data |-> arr.data,
     warned |-> warned, err |-> "none"]

ReturnedNone ==
    [kind |-> "none", dtype |-> "none", data |-> <<>>,
     warned |-> FALSE, err |-> "none"]

Raised(err) ==
    [kind |-> "raise", dtype |-> "none", data |-> <<>>,
     warned |-> FALSE, err |-> err]

\* Python's None where a number is expected
NoneVal == [cls |-> "none", neg |-> FALSE, m |-> <<>>, e |-> 0]

\* a target type is handed over as an np.dtype instance (asDtype) or as
\* the scalar class (np.uint8)
max_value_for_type(t, asDtype) ==
    IF IsInteger(t)
    THEN IF asDtype THEN MagNum(FALSE, IinfoMax(t)) ELSE NoneVal
    ELSE IF IsFloating(t)
    THEN IF asDtype THEN FinfoMax(t) ELSE NoneVal
    ELSE [cls |-> "ValueError", neg |-> FALSE, m |-> <<>>, e |-> 0]

\* the float type an operation of a float array of type t with the Python
\* int x is computed in
IntScalarResult(t, x, promo) ==
    IF promo = "legacy" /\ BLen(MagOf(x)) > 16 THEN "float64" ELSE t

\* the wider of two float types
FloatResult(t1, t2) == IF Width(t1) >= Width(t2) THEN t1 ELSE t2

\* a warning tied to narrowing instead of to the loss of the sign
SignLossWarningOnNarrowing(src, t) == Width(src) > Width(t)

\* the sign-loss warning of convert_type_integers_incl_scaling
SignLossWarning(src, t) == src \in SignedTypes /\ t \notin SignedTypes

\* the ratio taken between the maxima instead of the cardinalities
IntegersScaledByMaxima(arr, t, build) ==
    LET current_max == MagNum(FALSE, IinfoMax(arr.dtype))
        target_max == MagNum(FALSE, IinfoMax(t))
        down == BCmp(MagOf(current_max), MagOf(target_max)) > 0
        ratio == IF down THEN FDiv(current_max, target_max, "float64")
                 ELSE FDiv(target_max, current_max, "float64")
        scaled(x) == IF down THEN FDiv(FCast(x, "float64"), ratio, "float64")
                     ELSE FMul(FCast(x, "float64"), ratio, "float64")
    IN  Returned(Array(t, [i \in 1..Len(arr.data) |->
                              CastInt(scaled(arr.data[i]), t, build.cast)]),
                 SignLossWarning(arr.dtype, t))

convert_type_integers_incl_scaling(arr, t, build) ==
    LET current_max == MagNum(FALSE, BAdd(IinfoMax(arr.dtype), <<1>>))
        target_max == MagNum(FALSE, BAdd(IinfoMax(t), <<1>>))
        down == BCmp(MagOf(current_max), MagOf(target_max)) > 0
        ratio == IF down THEN FDiv(current_max, target_max, "float64")
                 ELSE FDiv(target_max, current_max, "float64")
        scaled(x) == IF down THEN FDiv(FCast(x, "float64"), ratio, "float64")
                     ELSE FMul(FCast(x, "float64"), ratio, "float64")
    IN  Returned(Array(t, [i \in 1..Len(arr.data) |->
                              CastInt(scaled(arr.data[i]), t, build.cast)]),
                 SignLossWarning(arr.dtype, t))

convert_type_floats_incl_scaling(arr, t) ==
    LET current_max_value == FinfoMax(arr.dtype)
        target_max_value == FinfoMax(t)
        rt == FloatResult(arr.dtype, t)
    IN  Returned(Array(rt, [i \in 1..Len(arr.data) |->
                     FMul(FDiv(arr.data[i], current_max_value, arr.dtype),
                          FCast(target_max_value, t), rt)]),
                 FALSE)

FloatToInteger(arr, t, asDtype, float_max_is_1, build) ==
    LET tmax == max_value_for_type(t, asDtype)
        mt == IntScalarResult(arr.dtype, tmax, build.promo)
        unit(x) == IF float_max_is_1 THEN x
                   ELSE FDiv(x, max_value_for_type(arr.dtype, TRUE), arr.dtype)
    IN  IF tmax.cls = "none" THEN Raised("TypeError")
        ELSE Returned(Array(t, [i \in 1..Len(arr.data) |->
                 CastInt(FMul(unit(arr.data[i]), FCast(tmax, mt), mt), t, build.cast)]),
                 FALSE)

IntegerToFloat(arr, t, float_max_is_1) ==
    LET as_float64(x) == FCast(x, "float64")
        scaling == IF float_max_is_1 THEN IntNum(1) ELSE FinfoMax(t)
        smax == FCast(max_value_for_type(arr.dtype, TRUE), "float64")
    IN  Returned(Array(t, [i \in 1..Len(arr.data) |->
                 FCast(FMul(FDiv(as_float64(arr.data[i]), smax, "float64"),
                            scaling, "float64"), t)]),
                 FALSE)

\* the conversion without its "nothing to do" shortcut
ConvertWithoutShortcut(arr, t, asDtype, float_max_is_1, build) ==
    IF IsFloating(arr.dtype) /\ IsFloating(t)
    THEN convert_type_floats_incl_scaling(arr, t)
    ELSE IF IsInteger(arr.dtype) /\ IsInteger(t)
    THEN convert_type_integers_incl_scaling(arr, t, build)
    ELSE IF IsFloating(arr.dtype) /\ IsInteger(t)
    THEN FloatToInteger(arr, t, asDtype, float_max_is_1, build)
    ELSE IF IsInteger(arr.dtype) /\ IsFloating(t)
    THEN IntegerToFloat(arr, t, float_max_is_1)
    ELSE ReturnedNone

convert_to_type_incl_scaling(arr, t, asDtype, float_max_is_1, build) ==
    IF arr.dtype = t THEN Returned(arr, FALSE)
    ELSE IF IsFloating(arr.dtype) /\ IsFloating(t)
    THEN convert_type_floats_incl_scaling(arr, t)
    ELSE IF IsInteger(arr.dtype) /\ IsInteger(t)
    THEN convert_type_integers_incl_scaling(arr, t, build)
    ELSE IF IsFloating(arr.dtype) /\ IsInteger(t)
    THEN FloatToInteger(arr, t, asDtype, float_max_is_1, build)
    ELSE IF IsInteger(arr.dtype) /\ IsFloating(t)
    THEN IntegerToFloat(arr, t, float_max_is_1)
    ELSE ReturnedNone

(***************************************************************************)
(* map_field_names.  A name is the sequence of its characters; None is a   *)
(* role without a name.                                                    *)
(***************************************************************************)
UpperChars ==
    <<"A", "B", "C", "D", "E", "F", "G", "H", "I", "J", "K", "L", "M",
      "N", "O", "P", "Q", "R", "S", "T", "U", "V", "W", "X", "Y", "Z">>

LowerChars ==
    <<"a", "b", "c", "d", "e", "f", "g", "h", "i", "j", "k", "l", "m",
      "n", "o", "p", "q", "r", "s", "t", "u", "v", "w", "x", "y", "z">>

Swap(c, from, to) ==
    IF \E i \in 1..Len(from) : from[i] = c
    THEN to[CHOOSE i \in 1..Len(from) : from[i] = c]
    ELSE c

\* a resolver that compares the name as written
LowerOmitted(name) == name

\* str.lower() and str.upper()
Lower(name) == [i \in 1..Len(name) |-> Swap(name[i], UpperChars, LowerChars)]

Upper(name) == [i \in 1..Len(name) |-> Swap(name[i], LowerChars, UpperChars)]

\* sub in name
Contains(sub, name) ==
    \E i \in 1..(Len(name) - Len(sub) + 1) : SubSeq(name, i, i + Len(sub) - 1) = sub

Roles == {"x", "y", "z", "r", "g", "b", "intensity"}

None == [isNone |-> TRUE, name |-> <<>>]

Named(name) == [isNone |-> FALSE, name |-> name]

Impls == {"util", "PointCloud"}

\* the order of the if / elif chain
RoleOrder(i) ==
    IF i = "util"
    THEN <<"intensity", "x", "y", "z", "r", "g", "b">>
    ELSE <<"x", "y", "z", "r", "g", "b", "intensity">>

\* the test of a role's branch on the lowered name, the "is None" apart
Matches(role, lowered) ==
    CASE role = "intensity" -> Contains(<<"i", "n", "t", "e", "n", "s", "i", "t">>, lowered)
      [] role = "x" -> Contains(<<"x">>, lowered)
      [] role = "y" -> Contains(<<"y">>, lowered)
      [] role = "z" -> Contains(<<"z">>, lowered)
      [] role = "r" -> lowered = <<"r">> \/ Contains(<<"r", "e", "d">>, lowered)
      [] role = "g" -> lowered = <<"g">> \/ Contains(<<"g", "r", "e", "e", "n">>, lowered)
      [] role = "b" -> lowered = <<"b">> \/ Contains(<<"b", "l", "u", "e">>, lowered)

\* a chain whose branches do not test "is None": a later name replaces
\* an earlier one
BranchTakenLastWins(i, map, lowered) ==
    LET ord == RoleOrder(i)
        hits == {k \in 1..Len(ord) : Matches(ord[k], lowered)}
    IN  IF hits = {} THEN {}
        ELSE {ord[CHOOSE k \in hits : \A j \in hits : k <= j]}

\* a chain of independent "if"s: every branch whose test holds is taken
BranchTakenEveryIf(i, map, lowered) ==
    {r \in Roles : map[r].isNone /\ Matches(r, lowered)}

\* the roles one iteration assigns the name to: that of the first branch of
\* the chain whose role is still None and whose test holds, if any
BranchTaken(i, map, lowered) ==
    LET ord == RoleOrder(i)
        hits == {k \in 1..Len(ord) : map[ord[k]].isNone /\ Matches(ord[k], lowered)}
    IN  IF hits = {} THEN {}
        ELSE {ord[CHOOSE k \in hits : \A j \in hits : k <= j]}

FieldsIdle ==
    /\ names = <<>>
    /\ impl = "util"
    /\ idx = 0
    /\ mapping = [r \in Roles |-> None]
    /\ returned = FALSE


(***************************************************************************)
(* The conversion engine as a state machine: an array of any type is       *)
(* converted, and then converted back to the type it had.                  *)
(***************************************************************************)
MaxLen == 2

MaxCalls == 2

EdgeSpan == 1

\* magnitudes around the powers of two at which the integer types and the
\* float64 significand end, and below 2^64 where float64 rounds up to it
PowerExps == {7, 8, 15, 16, 31, 32, 53, 63, 64}

Around(mag) ==
    {BAdd(mag, NatToBig(d)) : d \in 0..EdgeSpan}
        \cup {BSub(mag, NatToBig(d)) : d \in 0..EdgeSpan}

EdgeMags ==
    UNION {Around(Pow2Big(j)) : j \in PowerExps}
        \cup Around(BSub(Pow2Big(64), Pow2Big(10)))
        \cup {NatToBig(d) : d \in 0..EdgeSpan}

IntSamples(t) ==
    IF t = "uint8" THEN {IntNum(n) : n \in 0..255}
    ELSE {MagNum(neg, mag) : neg \in BOOLEAN, mag \in EdgeMags}

FloatSamples(t) ==
    {IntNum(0), IntNum(1), IntNum(-1), IntNum(255), IntNum(65535),
     Num(FALSE, <<1>>, -1), Num(FALSE, <<3>>, -2), FinfoMax("float32"),
     RoundTo(FALSE, <<1>>, 0, t), FDiv(IntNum(1), IntNum(3), t), FinfoMax(t)}

Samples(t) ==
    IF IsInteger(t)
    THEN {x \in IntSamples(t) : InIntRange(x.neg, MagOf(x), t)}
    ELSE IF IsFloating(t) THEN FloatSamples(t)
    ELSE {IntNum(0), IntNum(1)}

Extremes(t) ==
    IF IsInteger(t)
    THEN {MagNum(TRUE, IinfoMinMag(t)), MagNum(FALSE, IinfoMax(t))}
    ELSE IF IsFloating(t) THEN {IntNum(0), FinfoMax(t)}
    ELSE {IntNum(0), IntNum(1)}

ArrayData(t) ==
    {<<>>} \cup {<<x>> : x \in Samples(t)}
        \cup UNION {[1..n -> Extremes(t)] : n \in 2..MaxLen}

Idle ==
    [kind |-> "idle", dtype |-> "none", data |-> <<>>,
     warned |-> FALSE, err |-> "none"]

Call(fn, t, asDtype, flag) ==
    [fn |-> fn, target |-> t, asDtype |-> asDtype, float_max_is_1 |-> flag]

Init ==
    /\ \E t \in AllTypes : \E d \in ArrayData(t) : array = Array(t, d)
    /\ original = array
    /\ result = Idle
    /\ calls = <<>>
    /\ FieldsIdle
    /\ NewPointCloud /\ DiskIdle /\ RunIdle

\* the targets tried: any type at first, then the type the array had
Targets == IF calls = <<>> THEN AllTypes ELSE {original.dtype}

Finish(res, call) ==
    /\ result' = res
    /\ array' = IF res.kind = "array" THEN Array(res.dtype, res.data) ELSE array
    /\ calls' = Append(calls, call)
    /\ UNCHANGED original
    /\ UNCHANGED <<fieldVars, cloudVars, diskVars, runVars>>

\* convert_to_type_incl_scaling(array, t, float_max_is_1); the target is
\* spelled as the scalar class only where the code looks at the spelling
\* (max_value_for_type of an integer target)
Convert ==
    /\ Len(calls) < MaxCalls
    /\ result.kind \in {"idle", "array"}
    /\ \E t \in Targets, asDtype \in BOOLEAN, flag \in BOOLEAN :
         /\ calls # <<>> => flag = calls[1].float_max_is_1
         /\ ~asDtype => IsFloating(array.dtype) /\ IsInteger(t)
         /\ \E build \in BuildsFor(array.dtype, t) :
              Finish(convert_to_type_incl_scaling(array, t, asDtype, flag, build),
                     Call("convert_to_type_incl_scaling", t, asDtype, flag))

\* convert_type_integers_incl_scaling(array, t), as write_las calls it on
\* integer points and write_pts on integer colours
ConvertIntegers ==
    /\ calls = <<>>
    /\ IsInteger(array.dtype)
    /\ \E t \in {"int32", "uint8"} : \E build \in BuildsFor(array.dtype, t) :
         /\ t = "uint8" => array.dtype # "uint8"
         /\ Finish(convert_type_integers_incl_scaling(array, t, build),
                   Call("convert_type_integers_incl_scaling", t, TRUE, FALSE))

Next == Convert \/ ConvertIntegers

Spec == Init /\ [][Next]_vars

(***************************************************************************)
(* The resolver as a state machine: one iteration of the loop per step.    *)
(***************************************************************************)
MaxNames == 3

\* the names of the spec's example, each as written, lowered or in capitals
CanonicalNames ==
    <<<<"X">>, <<"Y">>, <<"Z">>, <<"R", "e", "d">>, <<"G", "r", "e", "e", "n">>, <<"B", "l", "u", "e">>, <<"I", "n", "t", "e", "n", "s", "i", "t", "y">>>>

Spellings(name) == {name, Lower(name), Upper(name)}

CanonicalLists ==
    LET c == CanonicalNames
    IN  {<<n1, n2, n3, n4, n5, n6, n7>> :
            n1 \in Spellings(c[1]), n2 \in Spellings(c[2]), n3 \in Spellings(c[3]),
            n4 \in Spellings(c[4]), n5 \in Spellings(c[5]), n6 \in Spellings(c[6]),
            n7 \in Spellings(c[7])}

\* names of E57, LAS and PLY files and names that fit several roles or none
OtherNames ==
    {<<"I", "n", "t", "e", "n", "s", "i", "t", "y">>, <<"i", "n", "t", "e", "n", "s", "i", "t", "i", "e", "s">>, <<"x", "y", "z">>, <<"b", "o", "x", "i", "d">>, <<"Y">>, <<"z">>, <<"R", "e", "d">>, <<"g">>, <<"B", "l", "u", "e">>, <<"s", "c", "a", "n">>}

NameLists ==
    CanonicalLists \cup UNION {[1..n -> OtherNames] : n \in 0..MaxNames}

InitFields ==
    /\ names \in NameLists
    /\ impl \in Impls
    /\ idx = 0
    /\ mapping = [r \in Roles |-> None]
    /\ returned = FALSE
    /\ array = Array("uint8", <<>>)
    /\ original = array
    /\ result = Idle
    /\ calls = <<>>
    /\ NewPointCloud /\ DiskIdle /\ RunIdle

\* one iteration of "for field_name in from_field_names"
MapStep ==
    /\ idx < Len(names)
    /\ LET field_name == names[idx + 1]
           taken == BranchTaken(impl, mapping, Lower(field_name))
       IN  mapping' = [r \in Roles |->
                          IF r \in taken THEN Named(field_name) ELSE mapping[r]]
    /\ idx' = idx + 1
    /\ UNCHANGED <<names, impl, returned>>
    /\ UNCHANGED <<convVars, cloudVars, diskVars, runVars>>

\* "return mapping"
MapReturn ==
    /\ idx = Len(names)
    /\ ~returned
    /\ returned' = TRUE
    /\ UNCHANGED <<names, impl, idx, mapping>>
    /\ UNCHANGED <<convVars, cloudVars, diskVars, runVars>>

NextFields == MapStep \/ MapReturn

SpecFields == InitFields /\ [][NextFields]_vars

(***************************************************************************)
(* Text.  A token is a sequence of characters without a blank, a line is   *)
(* the sequence of its tokens (they are separated by one blank; the blank  *)
(* line has none).  str() writes a number as Python and numpy do, float()  *)
(* and int() read it back.                                                 *)
(***************************************************************************)
DigitChars == <<"0", "1", "2", "3", "4", "5", "6", "7", "8", "9">>

IsDigitChar(c) == \E d \in 1..Len(DigitChars) : DigitChars[d] = c

DigitValue(c) == (CHOOSE d \in 1..Len(DigitChars) : DigitChars[d] = c) - 1

\* bytes.isdigit(): not empty and digits only
IsDigit(tok) == Len(tok) > 0 /\ \A i \in 1..Len(tok) : IsDigitChar(tok[i])

\* the decimal digits of a natural number, and their value
RECURSIVE NatStr(_)
NatStr(n) ==
    IF n < Len(DigitChars) THEN <<DigitChars[n + 1]>>
    ELSE NatStr(n \div Len(DigitChars)) \o <<DigitChars[(n % Len(DigitChars)) + 1]>>

RECURSIVE DigitsNat(_)
DigitsNat(tok) ==
    IF Len(tok) = 0 THEN 0
    ELSE Len(DigitChars) * DigitsNat(SubSeq(tok, 1, Len(tok) - 1))
            + DigitValue(tok[Len(tok)])

\* the digits of n, padded with zeros on the left to k places
Padded(n, k) ==
    LET d == NatStr(n)
    IN  [i \in 1..(k - Len(d)) |-> "0"] \o d

\* the longest fraction and the longest integer part str() is modelled for:
\* up to there the shortest decimal that reads back is the exact one
FracBits == 3

StrBits == 24

\* str() of an element of an array of type t
Str(x, t) ==
    LET sign == IF x.neg THEN <<"-">> ELSE <<>>
    IN  CASE x.cls = "inf" -> sign \o <<"i", "n", "f">>
          [] x.cls = "nan" -> <<"n", "a", "n">>
          [] x.cls = "fin" /\ IsInteger(t) /\ x.e >= 0 /\ BLen(MagOf(x)) <= StrBits ->
                sign \o NatStr(BigToNat(MagOf(x)))
          [] x.cls = "fin" /\ IsFloating(t) /\ x.e >= 0 /\ BLen(MagOf(x)) <= StrBits ->
                sign \o NatStr(BigToNat(MagOf(x))) \o <<".", "0">>
          [] x.cls = "fin" /\ IsFloating(t) /\ x.e < 0 /\ -x.e <= FracBits
                /\ BLen(x.m) <= StrBits ->
                LET k == -x.e
                    whole == BigToNat(BShr(x.m, k))
                    frac == BigToNat(BLow(x.m, k))
                IN  sign \o NatStr(whole) \o <<".">> \o Padded(frac * 5^k, k)

\* the shapes of token float() accepts, as far as they are modelled
Unsigned(tok) == IF Len(tok) > 0 /\ tok[1] = "-" THEN Tail(tok) ELSE tok

DotAt(tok) == {i \in 1..Len(tok) : tok[i] = "."}

IsFloatText(tok) ==
    LET u == Unsigned(tok)
    IN  \/ u \in {<<"i", "n", "f">>, <<"n", "a", "n">>}
        \/ /\ Cardinality(DotAt(u)) <= 1
           /\ \A i \in 1..Len(u) : IsDigitChar(u[i]) \/ u[i] = "."
           /\ \E i \in 1..Len(u) : IsDigitChar(u[i])

IsIntText(tok) == IsDigit(Unsigned(tok))

\* float(tok): the nearest float64
ParseFloat(tok) ==
    LET u == Unsigned(tok)
        neg == u # tok
        dot == DotAt(u)
        k == IF dot = {} THEN 0 ELSE Len(u) - (CHOOSE i \in dot : TRUE)
        digits == SelectSeq(u, IsDigitChar)
    IN  IF u = <<"i", "n", "f">> THEN Inf(neg)
        ELSE IF u = <<"n", "a", "n">> THEN NaN
        ELSE FDiv(Num(neg, NatToBig(DigitsNat(digits)), 0),
                  Num(FALSE, NatToBig(10^k), 0), "float64")

(***************************************************************************)
(* The .pts codec.                                                         *)
(***************************************************************************)
\* how a codec call ended: it returned True or False, or an exception left it
Ended(op, kind, err) == [op |-> op, kind |-> kind, err |-> err]

StartsComment(tok) == Len(tok) >= 2 /\ tok[1] = "/" /\ tok[2] = "/"

\* the tests of get_skip_lines_pts on the stripped line (lower() changes
\* neither a digit nor a slash nor a blank)
IsCommentLine(line) == Len(line) > 0 /\ StartsComment(line[1])

IsDigitLine(line) == Len(line) = 1 /\ IsDigit(line[1])

HasBlank(line) == Len(line) >= 2

RECURSIVE SkipLinesFrom(_, _, _)
SkipLinesFrom(ls, i, to_skip) ==
    IF i > Len(ls) THEN to_skip
    ELSE IF IsCommentLine(ls[i]) \/ IsDigitLine(ls[i])
    THEN SkipLinesFrom(ls, i + 1, to_skip + 1)
    ELSE IF HasBlank(ls[i]) THEN to_skip
    ELSE SkipLinesFrom(ls, i + 1, to_skip)

get_skip_lines_pts(ls) == SkipLinesFrom(ls, 1, 0)

\* f.readline().split(b' ') after skip_lines lines: a blank line and the
\* end of the file give one empty token
SampleOf(ls, skip_lines) ==
    IF skip_lines + 1 > Len(ls) \/ ls[skip_lines + 1] = <<>>
    THEN <<<<>>>>
    ELSE ls[skip_lines + 1]

\* the dtype_list of read_pts before and after the sample is looked at
DefaultDtypes ==
    <<"float32", "float32", "float32", "float32", "uint8", "uint8", "uint8">>

SampledDtypes(sample) ==
    [i \in 1..Len(DefaultDtypes) |->
        IF i > Len(sample) THEN DefaultDtypes[i]
        ELSE IF IsDigit(sample[i]) THEN "uint8" ELSE "float32"]

\* np.loadtxt: the lines after skiprows, each cut at its comment, the empty
\* ones dropped
CommentAt(line) == {i \in 1..Len(line) : StartsComment(line[i])}

WithoutComment(line) ==
    IF CommentAt(line) = {} THEN line
    ELSE SubSeq(line, 1, (CHOOSE i \in CommentAt(line) : \A j \in CommentAt(line) : i <= j) - 1)

IsDataLine(line) == WithoutComment(line) # <<>>

DataLines(ls, skiprows) ==
    LET rest == SubSeq(ls, skiprows + 1, Len(ls))
        kept == SelectSeq(rest, IsDataLine)
    IN  [i \in 1..Len(kept) |-> WithoutComment(kept[i])]

\* reading an integer column differs between numpy versions: the text is
\* read as an integer and has to fit, or it goes through float() and int()
\* and is then cast
IntParsers == {"strict", "viafloat"}

CanParse(tok, t, parser) ==
    IF IsFloating(t) THEN IsFloatText(tok)
    ELSE IF parser = "strict"
    THEN IsIntText(tok) /\ InIntRange(Unsigned(tok) # tok, NatToBig(DigitsNat(Unsigned(tok))), t)
    ELSE IsFloatText(tok) /\ ParseFloat(tok).cls = "fin"

Parse(tok, t, parser) ==
    IF IsFloating(t) THEN FCast(ParseFloat(tok), t)
    ELSE LET x == ParseFloat(tok)
         IN  WrapInt(x.neg, TruncMag(x), t)

\* the type np.stack gives the columns it puts side by side
Stacked(types) ==
    IF \A i \in 1..Len(types) : types[i] = types[1] THEN types[1]
    ELSE IF \E i \in 1..Len(types) : types[i] = "float64" THEN "float64"
    ELSE "float32"

Columns == Len(DefaultDtypes)

\* a value of a column of type t in the array np.stack makes of columns of
\* types that may differ
StackedValue(x, t) == IF IsFloating(t) THEN FCast(x, t) ELSE x

\* the attributes read_pts builds from the parsed table
PtsArrays(table, dtype_list) ==
    LET pt == Stacked(SubSeq(dtype_list, 1, 3))
        ct == Stacked(SubSeq(dtype_list, 5, 7))
        cell(r, c) == StackedValue(table[r][c], IF c <= 3 THEN pt ELSE IF c = 4 THEN dtype_list[4] ELSE ct)
    IN  [end |-> Ended("read_pts", "True", "none"),
         points |-> Array(pt, [r \in 1..Len(table) |-> [c \in 1..3 |-> cell(r, c)]]),
         colors |-> Array(ct, [r \in 1..Len(table) |-> [c \in 1..3 |-> cell(r, c + 4)]]),
         intensities |-> Array(dtype_list[4], [r \in 1..Len(table) |-> cell(r, 4)])]

ReadFailed(err) ==
    [end |-> Ended("read_pts", "raise", err),
     points |-> Unset, colors |-> Unset, intensities |-> Unset]

\* np.loadtxt and what follows it in read_pts
LoadTxt(data, dtype_list, parser) ==
    IF \E r \in 1..Len(data) :
          \/ Len(data[r]) # Columns
          \/ \E c \in 1..Columns : ~CanParse(data[r][c], dtype_list[c], parser)
    THEN ReadFailed("ValueError")
    ELSE IF Len(data) = 1 THEN ReadFailed("AxisError")
    ELSE PtsArrays([r \in 1..Len(data) |->
                       [c \in 1..Columns |-> Parse(data[r][c], dtype_list[c], parser)]],
                   dtype_list)

ReadFrom(ls, skip_lines, sample, parser) ==
    IF Len(sample) > Columns THEN ReadFailed("IndexError")
    ELSE LoadTxt(DataLines(ls, skip_lines), SampledDtypes(sample), parser)

\* PointCloud.read_pts on the text ls: how it ends and what it leaves in
\* the three attributes
read_pts(ls, parser) ==
    LET skip_lines == get_skip_lines_pts(ls)
    IN  ReadFrom(ls, skip_lines, SampleOf(ls, skip_lines), parser)

\* an (N, 3) array as the flat array the conversions are written for
Flatten(rows) ==
    [i \in 1..(3 * Len(rows)) |-> rows[((i - 1) \div 3) + 1][((i - 1) % 3) + 1]]

Unflatten(flat) ==
    [r \in 1..(Len(flat) \div 3) |-> [c \in 1..3 |-> flat[3 * (r - 1) + c]]]

\* a conversion's result put back into an attribute: None if it returned
\* None
Rows(res) ==
    IF res.kind = "array" THEN Array(res.dtype, Unflatten(res.data)) ELSE Unset

Flat(res) ==
    IF res.kind = "array" THEN Array(res.dtype, res.data) ELSE Unset

\* a header that never marks the colour columns
HeaderLineUnmarked(float_addition) ==
    <<<<"X">>, <<"Y">>, <<"Z">>, <<"I", "n", "t", "e", "n", "s", "i", "t", "y">>,
      <<"R">>, <<"G">>, <<"B">>>>

HeaderLine(float_addition) ==
    <<<<"X">>, <<"Y">>, <<"Z">>, <<"I", "n", "t", "e", "n", "s", "i", "t", "y">>,
      <<"R">> \o float_addition, <<"G">> \o float_addition, <<"B">> \o float_addition>>

\* the numbers whose str() is modelled
HasStr(x, t) ==
    \/ x.cls # "fin"
    \/ /\ x.e >= 0 /\ BLen(MagOf(x)) <= StrBits
    \/ /\ IsFloating(t) /\ x.e < 0 /\ -x.e <= FracBits /\ BLen(x.m) <= StrBits

PrintableRows(arr) ==
    \A r \in 1..Len(arr.data) : \A c \in 1..3 : HasStr(arr.data[r][c], arr.dtype)

Printable(arr) == \A i \in 1..Len(arr.data) : HasStr(arr.data[i], arr.dtype)

\* what write_pts makes of the colours and of the intensities
PtsColors(cols, build) ==
    IF IsInteger(cols.dtype) /\ cols.dtype # "uint8"
    THEN Rows(convert_type_integers_incl_scaling(
                Array(cols.dtype, Flatten(cols.data)), "uint8", build))
    ELSE IF IsFloating(cols.dtype) /\ cols.dtype # "float32"
    THEN Array("float32", [r \in 1..Len(cols.data) |->
                              [c \in 1..3 |-> FCast(cols.data[r][c], "float32")]])
    ELSE cols

PtsIntensities(ints, build) ==
    Flat(convert_to_type_incl_scaling(ints, "float32", TRUE, TRUE, build))

\* the lines write_pts writes for n points of which the first k get their
\* row
PtsText(pts, cols2, ints2, n, k) ==
    LET float_addition == IF IsFloating(cols2.dtype) THEN <<"f">> ELSE <<>>
        cell(i, c) == IF c <= 3 THEN <<pts.data[i][c], pts.dtype>>
                      ELSE IF c = 4 THEN <<ints2.data[i], ints2.dtype>>
                      ELSE <<cols2.data[i][c - 4], cols2.dtype>>
        text(v) == Str(v[1], v[2])
    IN  <<HeaderLine(float_addition), <<NatStr(n)>>>>
            \o [i \in 1..k |-> [c \in 1..Columns |-> text(cell(i, c))]]

\* PointCloud.write_pts once it has converted the colours to cols2 and the
\* intensities to ints2: how it ends, the attributes it leaves and the text
\* in the file; old is the text that was there, and the loop stops at the
\* first row an attribute is too short for
write_pts(pts, cols2, ints2, old, writable) ==
    LET n == Len(pts.data)
        k == IF ints2 = Unset THEN 0
             ELSE CHOOSE j \in 0..n :
                     /\ j <= Len(ints2.data) /\ j <= Len(cols2.data)
                     /\ j = n \/ j = Len(ints2.data) \/ j = Len(cols2.data)
    IN  IF ~writable
        THEN [end |-> Ended("write_pts", "raise", "OSError"),
              colors |-> cols2, intensities |-> ints2, lines |-> old]
        ELSE [end |-> IF k = n THEN Ended("write_pts", "True", "none")
                      ELSE Ended("write_pts", "raise",
                                 IF ints2 = Unset THEN "TypeError" ELSE "IndexError"),
              colors |-> cols2, intensities |-> ints2,
              lines |-> PtsText(pts, cols2, ints2, n, k)]

(***************************************************************************)
(* The .pts codec as a state machine: a cloud in memory is written, or a   *)
(* text that is on disk is read by a new PointCloud, and then the other.   *)
(***************************************************************************)
MaxPoints == 2

MaxLines == 3

MaxOps == 2

ConvIdle ==
    /\ array = Array("uint8", <<>>)
    /\ original = array
    /\ result = Idle
    /\ calls = <<>>

\* clouds as the decoders of the other formats leave them: rows of
\* coordinates, colours of several types, intensities
Clouds ==
    LET Half == Num(FALSE, <<1>>, -1)
        PointRows == {<<IntNum(0), IntNum(0), IntNum(0)>>,
                      <<Half, IntNum(-2), Num(FALSE, <<5>>, -2)>>}
        Values(t) == IF IsInteger(t) THEN {IntNum(0), MagNum(FALSE, IinfoMax(t))}
                     ELSE {IntNum(0), IntNum(1)}
        ColorRows(t) == {<<v, v, v>> : v \in Values(t)}
        ColorTypes == {"uint8", "uint16", "float32", "float64"}
        IntensityTypes == {"float32", "uint16"}
    IN  UNION {[points : {Array("float32", d) : d \in [1..n -> PointRows]},
                colors : UNION {{Array(t, d) : d \in [1..n -> ColorRows(t)]} : t \in ColorTypes},
                intensities : UNION {{Array(t, d) : d \in [1..n -> Values(t)]} :
                                       t \in IntensityTypes}] : n \in 0..MaxPoints}

\* .pts files written by hand or by other programs, line by line
Texts ==
    LET TextLines ==
            {<<<<"/", "/">>, <<"X">>, <<"Y">>, <<"Z">>>>, <<<<"2">>>>, <<>>, <<<<"s", "c", "a", "n">>>>,
             <<<<"0", ".", "5">>, <<"-", "2", ".", "0">>, <<"1", ".", "2", "5">>, <<"0", ".", "5">>, <<"2", "5", "5">>, <<"0">>, <<"1", "2", "8">>>>,
             <<<<"1">>, <<"2">>, <<"3">>, <<"5">>, <<"2", "5", "5">>, <<"2", "5", "5">>, <<"2", "5", "5">>>>,
             <<<<"0", ".", "0">>, <<"1", ".", "0">>, <<"2", ".", "5">>, <<"1", ".", "0">>, <<"0", ".", "5">>, <<"1", ".", "0">>, <<"0", ".", "0">>>>,
             <<<<"1", ".", "0">>, <<"2", ".", "0">>, <<"3", ".", "0">>, <<"1", ".", "0">>, <<"0">>, <<"0">>, <<"0">>, <<"7">>>>}
    IN  UNION {[1..n -> TextLines] : n \in 1..MaxLines}

InitPts ==
    /\ \/ /\ \E c \in Clouds :
               points = c.points /\ colors = c.colors /\ intensities = c.intensities
          /\ lines = <<>>
       \/ /\ points = Unset /\ colors = Unset /\ intensities = Unset
          /\ lines \in Texts
    /\ outcome = NotInUse
    /\ ops = <<>>
    /\ file = NotInUse /\ written = NotInUse
    /\ ConvIdle /\ FieldsIdle /\ RunIdle

\* point_cloud.write_pts(path)
WritePts ==
    /\ Len(ops) < MaxOps
    /\ points # Unset
    /\ "write_pts" \notin {ops[i] : i \in 1..Len(ops)}
    /\ \E writable \in BOOLEAN : \E build \in BuildsFor(colors.dtype, "uint8") :
         \E cols2 \in {PtsColors(colors, build)} :
         \E ints2 \in {PtsIntensities(intensities, build)} :
            /\ PrintableRows(points) /\ PrintableRows(cols2) /\ Printable(ints2)
            /\ \E w \in {write_pts(points, cols2, ints2, lines, writable)} :
                  /\ colors' = w.colors
                  /\ intensities' = w.intensities
                  /\ lines' = w.lines
                  /\ outcome' = w.end
    /\ ops' = Append(ops, "write_pts")
    /\ UNCHANGED <<points, file, written>>
    /\ UNCHANGED <<convVars, fieldVars, runVars>>

\* PointCloud().read_pts(path) on the text that is on disk
ReadPts ==
    /\ Len(ops) < MaxOps
    /\ lines # <<>>
    /\ "read_pts" \notin {ops[i] : i \in 1..Len(ops)}
    /\ \E parser \in IntParsers : \E r \in {read_pts(lines, parser)} :
         /\ points' = r.points
         /\ colors' = r.colors
         /\ intensities' = r.intensities
         /\ outcome' = r.end
    /\ ops' = Append(ops, "read_pts")
    /\ UNCHANGED <<lines, file, written>>
    /\ UNCHANGED <<convVars, fieldVars, runVars>>

NextPts == WritePts \/ ReadPts

SpecPts == InitPts /\ [][NextPts]_vars

(***************************************************************************)
(* More arithmetic of numpy, for the header write_las computes.            *)
(***************************************************************************)
\* a - b computed in format t, for finite a and b
FSub(a, b, t) ==
    LET e == IF a.e < b.e THEN a.e ELSE b.e
        ab == [i \in 1..2 |-> BShl(IF i = 1 THEN a.m ELSE b.m,
                                   (IF i = 1 THEN a.e ELSE b.e) - e)]
        c == BCmp(ab[1], ab[2])
    IN  RoundTo(IF a.neg # b.neg THEN a.neg ELSE IF c = 0 THEN FALSE
                ELSE IF c > 0 THEN a.neg ELSE ~a.neg,
                IF a.neg # b.neg THEN BAdd(ab[1], ab[2])
                ELSE BSub(ab[IF c >= 0 THEN 1 ELSE 2], ab[IF c >= 0 THEN 2 ELSE 1]),
                e, t)

\* a < b for finite a and b
NumLess(a, b) ==
    LET d == FSub(a, b, "float64") IN d.neg /\ ~IsZero(d)

\* np.min (least) or np.max of a column that is not empty
ColBound(col, least) ==
    col[CHOOSE i \in 1..Len(col) :
           \A j \in 1..Len(col) :
              ~NumLess(col[IF least THEN j ELSE i], col[IF least THEN i ELSE j])]

\* a / b as numpy divides float64 arrays: x / 0 is an infinity, 0 / 0 and
\* inf / inf are not a number (with a RuntimeWarning)
NpDivide(a, b) ==
    IF a.cls = "nan" \/ b.cls = "nan" THEN NaN
    ELSE IF b.cls = "inf"
    THEN IF a.cls = "inf" THEN NaN ELSE Num(a.neg # b.neg, <<>>, 0)
    ELSE IF IsZero(b)
    THEN IF IsZero(a) THEN NaN ELSE Inf(a.neg # b.neg)
    ELSE FDiv(a, b, "float64")

\* np.round of a finite number: the nearest integer, ties to even
Rint(x) ==
    IF x.e >= 0 THEN x
    ELSE LET k == -x.e
             kept == BShr(x.m, k)
             up == BBit(x.m, k) = 1 /\ (Len(BLow(x.m, k - 1)) > 0 \/ BBit(x.m, k + 1) = 1)
         IN  Num(x.neg, IF up THEN BAdd(kept, <<1>>) ELSE kept, 0)

(***************************************************************************)
(* map_field_names as the decoders call it.                                *)
(***************************************************************************)
\* the dict after one more name has gone through the if / elif chain
MapOne(map, name, i) ==
    LET taken == BranchTaken(i, map, Lower(name))
        entry(r) == IF r \in taken THEN Named(name) ELSE map[r]
    IN  [x |-> entry("x"), y |-> entry("y"), z |-> entry("z"),
         r |-> entry("r"), g |-> entry("g"), b |-> entry("b"),
         intensity |-> entry("intensity")]

\* the loop over the names from the k-th on; each pass works on the dict
\* the pass before it has left
RECURSIVE MapFrom(_, _, _, _)
MapFrom(from_field_names, k, map, i) ==
    IF k > Len(from_field_names) THEN map
    ELSE CHOOSE out \in {MapFrom(from_field_names, k + 1, next, i) :
                            next \in {MapOne(map, from_field_names[k], i)}} : TRUE

map_field_names(from_field_names, i) ==
    MapFrom(from_field_names, 1,
            [x |-> None, y |-> None, z |-> None, r |-> None, g |-> None, b |-> None,
             intensity |-> None],
            i)

(***************************************************************************)
(* The E57, LAS and PLY decoders.  A file is what its library hands over:  *)
(* its point count and its fields in the file's order, each a name, a      *)
(* type and a column of count values; the X, Y, Z of a LAS file are the    *)
(* scaled coordinates las.xyz computes.  A malformed file makes the        *)
(* library's open or read call raise.  self is the PointCloud the decoder  *)
(* is called on: an attribute the decoder has not reached when an          *)
(* exception leaves it keeps its value.                                    *)
(***************************************************************************)
\* a library call whose result nothing in this repository fixes: it raises
\* or it returns something that is not the data asked for
Unspecified == {"raise", "garbage"}

\* what a codec call leaves behind
Left(op, kind, err, pts, cols, ints) ==
    [end |-> Ended(op, kind, err), points |-> pts, colors |-> cols, intensities |-> ints]

\* np.zeros of shape (n, 3) and of shape (n,)
ZeroRows(n) == [r \in 1..n |-> <<IntNum(0), IntNum(0), IntNum(0)>>]

ZeroColumn(n) == [r \in 1..n |-> IntNum(0)]

\* the names of a file's fields, in the file's order
FieldNames(f) == [k \in 1..Len(f.fields) |-> f.fields[k].name]

\* data[name]: the column of the field of that name
Column(f, name) ==
    f.fields[CHOOSE k \in 1..Len(f.fields) : f.fields[k].name = name]

\* np.stack((a, b, c), axis=1) of three columns, in the type t
StackOf(a, b, c, t) ==
    Array(t, [r \in 1..Len(a.column) |->
                 <<StackedValue(a.column[r], t), StackedValue(b.column[r], t),
                   StackedValue(c.column[r], t)>>])

\* "if fm[role]": neither None nor the empty string
Truthy(entry) == ~entry.isNone /\ entry.name # <<>>

\* fm is map_field_names(header.point_fields)
read_e57(f, fm, self) ==
    LET col(role) == Column(f, fm[role].name)
    IN  IF f.malformed
        THEN Left("read_e57", "raise", "LibraryError",
                  self.points, self.colors, self.intensities)
        ELSE Left("read_e57", "True", "none",
                  IF Truthy(fm["x"]) /\ Truthy(fm["y"]) /\ Truthy(fm["z"])
                  THEN StackOf(col("x"), col("y"), col("z"), "float32")
                  ELSE Array("float32", ZeroRows(f.count)),
                  IF Truthy(fm["r"]) /\ Truthy(fm["g"]) /\ Truthy(fm["b"])
                  THEN StackOf(col("r"), col("g"), col("b"), "uint8")
                  ELSE Array("uint8", ZeroRows(f.count)),
                  IF Truthy(fm["intensity"])
                  THEN Array("float32", [r \in 1..f.count |->
                                            FCast(col("intensity").column[r], "float32")])
                  ELSE Array("float32", ZeroColumn(f.count)))

\* "'r' in fn" asks whether the dict has the key, and map_field_names
\* gives every dict all seven keys: the stack is always taken, and
\* las[None] is read
\* for a role without a name; fn is map_field_names of the dimensions' names
read_las(f, fn, self, lib) ==
    LET col(role) == Column(f, fn[role].name)
        pts == StackOf(col("x"), col("y"), col("z"), "float32")
        named == {role \in {"r", "g", "b"} : ~fn[role].isNone}
        cols == IF named = {"r", "g", "b"}
                THEN StackOf(col("r"), col("g"), col("b"),
                             Stacked(<<col("r").dtype, col("g").dtype, col("b").dtype>>))
                ELSE Array("void", ZeroRows(1))
    IN  IF f.malformed
        THEN Left("read_las", "raise", "LibraryError",
                  self.points, self.colors, self.intensities)
        ELSE IF named # {"r", "g", "b"} /\ (lib = "raise" \/ named # {})
        THEN Left("read_las", "raise", IF lib = "raise" THEN "LibraryError" ELSE "ValueError",
                  pts, self.colors, self.intensities)
        ELSE IF fn["intensity"].isNone
        THEN IF lib = "raise"
             THEN Left("read_las", "raise", "LibraryError", pts, cols, self.intensities)
             ELSE Left("read_las", "True", "none", pts, cols, Array("void", ZeroColumn(1)))
        ELSE Left("read_las", "True", "none", pts, cols,
                  Array(col("intensity").dtype, col("intensity").column))

\* the loop assigns on every property whose name matches, so the last one
\* stays; self.intensities is assigned inside the loop and tested after it
read_ply(f, self) ==
    LET lowered(k) == Lower(f.fields[k].name)
        last(S) == f.fields[CHOOSE k \in S : \A j \in S : j <= k]
        at(n1, n2) == {k \in 1..Len(f.fields) : lowered(k) = n1 \/ lowered(k) = n2}
        other == {k \in 1..Len(f.fields) :
                     /\ lowered(k) \notin {<<"x">>, <<"y">>, <<"z">>, <<"r">>, <<"g">>, <<"b">>,
                                           <<"r", "e", "d">>, <<"g", "r", "e", "e", "n">>,
                                           <<"b", "l", "u", "e">>}
                     /\ Contains(<<"i", "n", "t", "e", "n", "s", "i", "t", "y">>, lowered(k))}
        x == at(<<"x">>, <<"x">>)
        y == at(<<"y">>, <<"y">>)
        z == at(<<"z">>, <<"z">>)
        r == at(<<"r">>, <<"r", "e", "d">>)
        g == at(<<"g">>, <<"g", "r", "e", "e", "n">>)
        b == at(<<"b">>, <<"b", "l", "u", "e">>)
        ints == IF other = {} THEN self.intensities
                ELSE Array(last(other).dtype, last(other).column)
        pts == StackOf(last(x), last(y), last(z),
                       Stacked(<<last(x).dtype, last(y).dtype, last(z).dtype>>))
    IN  IF f.malformed
        THEN Left("read_ply", "raise", "LibraryError",
                  self.points, self.colors, self.intensities)
        ELSE IF x = {} \/ y = {} \/ z = {}
        THEN Left("read_ply", "raise", "ValueError", self.points, self.colors, ints)
        ELSE Left("read_ply", "True", "none", pts,
                  IF r # {} /\ g # {} /\ b # {}
                  THEN StackOf(last(r), last(g), last(b),
                               Stacked(<<last(r).dtype, last(g).dtype, last(b).dtype>>))
                  ELSE Array("uint8", ZeroRows(f.count)),
                  IF ints = Unset THEN Array("float32", ZeroColumn(f.count)) ELSE ints)

(***************************************************************************)
(* The E57, LAS and PLY encoders.  written is what the encoder computed    *)
(* for its library before the call ended; an unwritable target makes the   *)
(* library's call that opens or writes the file raise.                     *)
(***************************************************************************)
\* what an encoder leaves behind
Encoded(left, kind, header, xyz) ==
    [end |-> left.end, points |-> left.points, colors |-> left.colors,
     intensities |-> left.intensities,
     written |-> [kind |-> kind, header |-> header, xyz |-> xyz, intensity |-> <<>>]]

\* convert_to_type_incl_scaling on an (N, 3) attribute
ConvertRows(arr, t, asDtype, float_max_is_1, build) ==
    convert_to_type_incl_scaling(Array(arr.dtype, Flatten(arr.data)), t, asDtype,
                                 float_max_is_1, build)

\* cres is what convert_to_type_incl_scaling(self.colors, np.uint8, True)
\* gives
write_e57(self, cres, writable, lib) ==
    IF ~writable
    THEN Encoded(Left("write_e57", "raise", "LibraryError",
                      self.points, self.colors, self.intensities), "nothing", [offsets |-> <<>>, scales |-> <<>>], <<>>)
    ELSE IF cres.kind = "raise"
    THEN Encoded(Left("write_e57", "raise", cres.err,
                      self.points, self.colors, self.intensities), "nothing", [offsets |-> <<>>, scales |-> <<>>], <<>>)
    ELSE IF cres.kind = "none"
    THEN Encoded(Left("write_e57", "raise", "TypeError",
                      self.points, Unset, self.intensities), "nothing", [offsets |-> <<>>, scales |-> <<>>], <<>>)
    ELSE IF lib = "raise" /\ (Len(Rows(cres).data) # Len(self.points.data)
                              \/ Len(self.intensities.data) # Len(self.points.data))
    THEN Encoded(Left("write_e57", "raise", "LibraryError",
                      self.points, Rows(cres), self.intensities), "nothing", [offsets |-> <<>>, scales |-> <<>>], <<>>)
    ELSE Encoded(Left("write_e57", "True", "none",
                      self.points, Rows(cres), self.intensities),
                 "e57", [offsets |-> <<>>, scales |-> <<>>], self.points.data)

\* np.iinfo(np.int32).max
Int32Max == MagNum(FALSE, IinfoMax("int32"))

\* header.offsets: zeros for integer points, np.min(self.points, axis=0)
\* for floating ones, nothing when np.min is given no point and raises
LasOffsets(pts) ==
    IF IsInteger(pts.dtype) THEN [k \in 1..3 |-> IntNum(0)]
    ELSE IF Len(pts.data) = 0 THEN <<>>
    ELSE [k \in 1..3 |-> ColBound([r \in 1..Len(pts.data) |-> pts.data[r][k]], TRUE)]

\* header.scales: ones for integer points,
\* np.max(self.points - header.offsets, axis=0) / np.iinfo(np.int32).max
\* for floating ones
LasScales(pts, offsets) ==
    IF IsInteger(pts.dtype) THEN [k \in 1..3 |-> IntNum(1)]
    ELSE IF offsets = <<>> THEN <<>>
    ELSE [k \in 1..3 |->
             CHOOSE q \in {NpDivide(d, Int32Max) :
                             d \in {ColBound([r \in 1..Len(pts.data) |->
                                                 FSub(pts.data[r][k], offsets[k], "float64")],
                                             FALSE)}} : TRUE]

\* the integer laspy stores for a quotient, the quotient itself when it is
\* not finite
Quantized(q) == IF q.cls = "fin" THEN Rint(q) ELSE q

\* las.xyz = self.points: (p - offset) / scale per point and axis
LasXyz(pts, offsets, scales) ==
    IF offsets = <<>> THEN <<>>
    ELSE [r \in 1..Len(pts.data) |->
             [k \in 1..3 |->
                 CHOOSE v \in {Quantized(q) :
                                 q \in {NpDivide(d, scales[k]) :
                                           d \in {FSub(pts.data[r][k], offsets[k],
                                                       "float64")}}} : TRUE]]

\* the points as line 248 leaves them
LasPoints(pts, build) ==
    IF IsInteger(pts.dtype)
    THEN Rows(convert_type_integers_incl_scaling(Array(pts.dtype, Flatten(pts.data)),
                                                 "int32", build))
    ELSE pts

\* the conversions of lines 258 and 260: the intensities to uint16 with
\* float_max_is_1 False, the colours to uint16 with float_max_is_1 True
LasConverted(ints, cols, build) ==
    [attr \in {"intensities", "colors"} |->
        convert_to_type_incl_scaling(
            IF attr = "colors" THEN Array(cols.dtype, Flatten(cols.data)) ELSE ints,
            "uint16", TRUE, attr = "colors", build)]

\* pts2 is LasPoints of the points, header their LasOffsets and LasScales
\* and xyz their LasXyz; ires and cres are what the two conversions give
write_las(self, pts2, header, xyz, ires, cres, writable, lib) ==
    LET fails(err, cols) ==
            Encoded(Left("write_las", "raise", err, pts2, cols, self.intensities),
                    "las", header, xyz)
        \* las.intensity = ... has been carried out
        assigned(enc) == [enc EXCEPT !.written.intensity = ires.data]
    IN  IF header.offsets = <<>>
        THEN Encoded(Left("write_las", "raise", "ValueError",
                          self.points, self.colors, self.intensities), "nothing", [offsets |-> <<>>, scales |-> <<>>], <<>>)
        ELSE IF lib = "raise" /\ \E r \in 1..Len(xyz) : \E k \in 1..3 : xyz[r][k].cls # "fin"
        THEN fails("LibraryError", self.colors)
        ELSE IF ires.kind = "raise" THEN fails(ires.err, self.colors)
        ELSE IF lib = "raise" /\ (ires.kind = "none" \/ Len(ires.data) # Len(pts2.data))
        THEN fails("LibraryError", self.colors)
        ELSE IF cres.kind = "raise" THEN assigned(fails(cres.err, self.colors))
        ELSE IF cres.kind = "none" THEN assigned(fails("TypeError", Unset))
        ELSE IF lib = "raise" /\ Len(Rows(cres).data) # Len(pts2.data)
        THEN assigned(fails("LibraryError", Rows(cres)))
        ELSE IF ~writable THEN assigned(fails("OSError", Rows(cres)))
        ELSE assigned(Encoded(Left("write_las", "True", "none", pts2, Rows(cres),
                                   self.intensities),
                              "las", header, xyz))

\* a numpy assignment of a column to a table of another length raises,
\* unless the column has one value, which is repeated
write_ply(self, writable) ==
    IF self.colors.dtype = "void" \/ self.intensities.dtype = "void"
    THEN Encoded(Left("write_ply", "raise", "LibraryError",
                      self.points, self.colors, self.intensities), "nothing", [offsets |-> <<>>, scales |-> <<>>], <<>>)
    ELSE IF Len(self.colors.data) \notin {1, Len(self.points.data)}
            \/ Len(self.intensities.data) \notin {1, Len(self.points.data)}
    THEN Encoded(Left("write_ply", "raise", "ValueError",
                      self.points, self.colors, self.intensities), "nothing", [offsets |-> <<>>, scales |-> <<>>], <<>>)
    ELSE IF ~writable
    THEN Encoded(Left("write_ply", "raise", "OSError",
                      self.points, self.colors, self.intensities), "nothing", [offsets |-> <<>>, scales |-> <<>>], <<>>)
    ELSE Encoded(Left("write_ply", "True", "none",
                      self.points, self.colors, self.intensities),
                 "ply", [offsets |-> <<>>, scales |-> <<>>], self.points.data)

(***************************************************************************)
(* The codecs as a state machine: a PointCloud decodes a file, and then    *)
(* decodes another one or encodes what it holds.                           *)
(***************************************************************************)
\* the files given to the decoders: with and without colour and intensity
\* fields, of 0..MaxPoints points that share their coordinates or, when
\* there are several, differ on every axis, and malformed ones
Files ==
    LET Coord(t, flat, r, k) ==
            IF IsInteger(t) THEN IntNum(IF flat THEN 3 ELSE r + k)
            ELSE Num(k = 3, <<IF flat THEN 3 ELSE r + k>>, -1)
        Field(name, t, col) == [name |-> name, dtype |-> t, column |-> col]
        Xyz(nx, ny, nz, t, flat, n) ==
            <<Field(nx, t, [r \in 1..n |-> Coord(t, flat, r, 1)]),
              Field(ny, t, [r \in 1..n |-> Coord(t, flat, r, 2)]),
              Field(nz, t, [r \in 1..n |-> Coord(t, flat, r, 3)])>>
        Rgb(nr, ng, nb, t, n) ==
            <<Field(nr, t, [r \in 1..n |-> MagNum(FALSE, IinfoMax(t))]),
              Field(ng, t, [r \in 1..n |-> IntNum(r)]),
              Field(nb, t, [r \in 1..n |-> IntNum(0)])>>
        Shapes == {[n |-> n, flat |-> flat] : n \in 0..MaxPoints, flat \in BOOLEAN}
                  \ {[n |-> 1, flat |-> FALSE]}
        File(format, n, fields) ==
            [format |-> format, malformed |-> FALSE, count |-> n, fields |-> fields]
        E57(s, colour, intensity) ==
            File("e57", s.n,
                 Xyz(<<"c", "a", "r", "t", "e", "s", "i", "a", "n", "X">>,
                     <<"c", "a", "r", "t", "e", "s", "i", "a", "n", "Y">>,
                     <<"c", "a", "r", "t", "e", "s", "i", "a", "n", "Z">>,
                     "float64", s.flat, s.n)
                 \o (IF intensity
                     THEN <<Field(<<"i", "n", "t", "e", "n", "s", "i", "t", "y">>, "float32",
                                  [r \in 1..s.n |-> Num(FALSE, <<r>>, -1)])>>
                     ELSE <<>>)
                 \o (IF colour
                     THEN Rgb(<<"c", "o", "l", "o", "r", "R", "e", "d">>,
                              <<"c", "o", "l", "o", "r", "G", "r", "e", "e", "n">>,
                              <<"c", "o", "l", "o", "r", "B", "l", "u", "e">>, "uint8", s.n)
                     ELSE <<>>))
        Las(s, colour) ==
            File("las", s.n,
                 Xyz(<<"X">>, <<"Y">>, <<"Z">>, "float64", s.flat, s.n)
                 \o <<Field(<<"i", "n", "t", "e", "n", "s", "i", "t", "y">>, "uint16",
                            [r \in 1..s.n |-> IntNum(256 * r)]),
                      Field(<<"c", "l", "a", "s", "s", "i", "f", "i", "c", "a", "t", "i", "o", "n">>,
                            "uint8", [r \in 1..s.n |-> IntNum(2)])>>
                 \o (IF colour
                     THEN Rgb(<<"r", "e", "d">>, <<"g", "r", "e", "e", "n">>,
                              <<"b", "l", "u", "e">>, "uint16", s.n)
                     ELSE <<>>))
        Ply(s, t, colour, intensity) ==
            File("ply", s.n,
                 Xyz(<<"x">>, <<"y">>, <<"z">>, t, s.flat, s.n)
                 \o (IF colour
                     THEN Rgb(<<"r", "e", "d">>, <<"g", "r", "e", "e", "n">>,
                              <<"b", "l", "u", "e">>, "uint8", s.n)
                     ELSE <<>>)
                 \o (IF intensity
                     THEN <<Field(<<"s", "c", "a", "l", "a", "r", "_", "I", "n", "t", "e", "n",
                                    "s", "i", "t", "y">>, "float32",
                                  [r \in 1..s.n |-> Num(FALSE, <<r>>, -1)])>>
                     ELSE <<>>))
        \* a PLY file with colours and intensities as floats between 0 and 1
        PlyUnit(s) ==
            File("ply", s.n,
                 Xyz(<<"x">>, <<"y">>, <<"z">>, "float32", s.flat, s.n)
                 \o <<Field(<<"r", "e", "d">>, "float32", [r \in 1..s.n |-> IntNum(1)]),
                      Field(<<"g", "r", "e", "e", "n">>, "float32",
                            [r \in 1..s.n |-> Num(FALSE, <<r>>, -1)]),
                      Field(<<"b", "l", "u", "e">>, "float32", [r \in 1..s.n |-> IntNum(0)]),
                      Field(<<"s", "c", "a", "l", "a", "r", "_", "I", "n", "t", "e", "n",
                              "s", "i", "t", "y">>, "float32",
                            [r \in 1..s.n |-> Num(FALSE, <<r>>, -1)])>>)
    IN  {[format |-> fmt, malformed |-> TRUE, count |-> 0, fields |-> <<>>] :
            fmt \in {"e57", "las", "ply"}}
        \cup {PlyUnit(s) : s \in Shapes}
        \cup {E57(s, c, i) : s \in Shapes, c \in BOOLEAN, i \in BOOLEAN}
        \cup {Las(s, c) : s \in Shapes, c \in BOOLEAN}
        \cup {Ply(s, t, c, i) : s \in Shapes, t \in {"float32", "int32"},
                                c \in BOOLEAN, i \in BOOLEAN}

\* the PointCloud as a codec finds it
Self == [points |-> points, colors |-> colors, intensities |-> intensities]

InitCodec ==
    /\ NewPointCloud
    /\ DiskIdle
    /\ ConvIdle /\ FieldsIdle /\ RunIdle

\* a decoder has run on file f and left r
Decoded(op, f, r) ==
    /\ points' = r.points
    /\ colors' = r.colors
    /\ intensities' = r.intensities
    /\ outcome' = r.end
    /\ ops' = Append(ops, op)
    /\ file' = f
    /\ written' = NotInUse
    /\ UNCHANGED lines
    /\ UNCHANGED <<convVars, fieldVars, runVars>>

\* point_cloud.read_e57(path)
ReadE57 ==
    /\ Len(ops) < MaxOps
    /\ \E f \in {g \in Files : g.format = "e57"} :
       \E fm \in {map_field_names(FieldNames(f), "PointCloud")} :
       \E r \in {read_e57(f, fm, Self)} : Decoded("read_e57", f, r)

\* point_cloud.read_las(path)
ReadLas ==
    /\ Len(ops) < MaxOps
    /\ \E f \in {g \in Files : g.format = "las"} : \E lib \in Unspecified :
       \E fn \in {map_field_names(FieldNames(f), "PointCloud")} :
       \E r \in {read_las(f, fn, Self, lib)} : Decoded("read_las", f, r)

\* point_cloud.read_ply(path)
ReadPly ==
    /\ Len(ops) < MaxOps
    /\ \E f \in {g \in Files : g.format = "ply"} : \E r \in {read_ply(f, Self)} :
          Decoded("read_ply", f, r)

\* the driver encodes what a decoder has filled in
CanEncode ==
    /\ Len(ops) < MaxOps
    /\ points # Unset /\ colors # Unset /\ intensities # Unset

\* an encoder has run on a target that could be written or not, and left w
EncodedAs(op, w, writable) ==
    /\ points' = w.points
    /\ colors' = w.colors
    /\ intensities' = w.intensities
    /\ outcome' = w.end
    /\ written' = [kind |-> w.written.kind, header |-> w.written.header,
                   xyz |-> w.written.xyz, intensity |-> w.written.intensity,
                   writable |-> writable]
    /\ ops' = Append(ops, op)
    /\ UNCHANGED <<lines, file>>
    /\ UNCHANGED <<convVars, fieldVars>>

\* point_cloud.write_e57(path)
WriteE57 ==
    /\ CanEncode
    /\ \E build \in BuildsFor(colors.dtype, "uint8") :
       \E cres \in {ConvertRows(colors, "uint8", FALSE, TRUE, build)} :
       \E writable \in BOOLEAN : \E lib \in Unspecified :
       \E w \in {write_e57(Self, cres, writable, lib)} : EncodedAs("write_e57", w, writable)
    /\ UNCHANGED runVars

\* self.write_las(path) with all that it computes
WriteLasCall ==
    /\ \E build \in BuildsFor(colors.dtype, "uint16") :
       \E pts2 \in {LasPoints(points, build)} :
       \E offsets \in {LasOffsets(points)} :
       \E scales \in {LasScales(points, offsets)} :
       \E xyz \in {LasXyz(pts2, offsets, scales)} :
       \E converted \in {LasConverted(intensities, colors, build)} :
       \E ires \in {converted["intensities"]} : \E cres \in {converted["colors"]} :
       \E writable \in BOOLEAN : \E lib \in Unspecified :
       \E w \in {write_las(Self, pts2, [offsets |-> offsets, scales |-> scales], xyz,
                            ires, cres, writable, lib)} :
          EncodedAs("write_las", w, writable)

\* point_cloud.write_las(path)
WriteLas ==
    /\ CanEncode
    /\ WriteLasCall
    /\ UNCHANGED runVars

\* point_cloud.write_ply(path)
WritePly ==
    /\ CanEncode
    /\ \E writable \in BOOLEAN : \E w \in {write_ply(Self, writable)} :
          EncodedAs("write_ply", w, writable)
    /\ UNCHANGED runVars

NextCodec == ReadE57 \/ ReadLas \/ ReadPly \/ WriteE57 \/ WriteLas \/ WritePly

SpecCodec == InitCodec /\ [][NextCodec]_vars

(***************************************************************************)
(* write_potree and the search for the converter.  A path is missing, a    *)
(* directory, a file or something else that exists; a directory is known   *)
(* by the names of the files os.walk finds below it, in the order of the   *)
(* walk; a file by its name and by the files below its parent directory.   *)
(***************************************************************************)
ConverterName ==
    <<"p", "o", "t", "r", "e", "e", "c", "o", "n", "v", "e", "r", "t", "e", "r",
      ".", "e", "x", "e">>

\* no Path
NoPath == [found |-> FALSE, name |-> <<>>]

PathTo(name) == [found |-> TRUE, name |-> name]

\* the first file of the walk whose lowered name is the lowered file_name
find_file_in_directory(file_name, directory) ==
    LET hits == {k \in 1..Len(directory.files) :
                    Lower(directory.files[k]) = Lower(file_name)}
    IN  IF directory.kind # "dir" \/ hits = {} THEN NoPath
        ELSE PathTo(directory.files[CHOOSE k \in hits : \A j \in hits : k <= j])

\* a search that goes on next to the running script when the explicit path
\* does not lead to the converter
FindFallsBackToScript(current_file, ptc_path) ==
    LET explicit ==
            IF ~ptc_path.given \/ ptc_path.kind = "missing" THEN NoPath
            ELSE IF ptc_path.kind = "dir"
            THEN find_file_in_directory(ConverterName, ptc_path)
            ELSE IF ptc_path.kind = "file" /\ Lower(ptc_path.name) = ConverterName
            THEN PathTo(ptc_path.name)
            ELSE NoPath
    IN  IF explicit.found THEN explicit
        ELSE IF current_file.kind # "file" THEN NoPath
        ELSE find_file_in_directory(ConverterName,
                                    [kind |-> "dir", files |-> current_file.files])

\* ptc_path.given is "ptc_path is not None"; the parent of current_file is
\* the directory that holds current_file.files
find_potreeconverter(current_file, ptc_path) ==
    IF ptc_path.given
    THEN IF ptc_path.kind = "missing" THEN NoPath
         ELSE IF ptc_path.kind = "dir"
         THEN find_file_in_directory(ConverterName, ptc_path)
         ELSE IF ptc_path.kind = "file" /\ Lower(ptc_path.name) = ConverterName
         THEN PathTo(ptc_path.name)
         ELSE NoPath
    ELSE IF current_file.kind # "file" THEN NoPath
         ELSE find_file_in_directory(ConverterName,
                                     [kind |-> "dir", files |-> current_file.files])

(***************************************************************************)
(* write_potree as a state machine, statement by statement: the search,    *)
(* self.write_las on the temporary file, subprocess.run, os.remove and the *)
(* return.  An exception leaves write_potree at the statement that raised. *)
(***************************************************************************)
\* the paths write_potree may be given
Paths ==
    LET Mixed == <<"P", "o", "t", "r", "e", "e", "C", "o", "n", "v", "e", "r", "t", "e", "r",
                   ".", "e", "x", "e">>
        Readme == <<"r", "e", "a", "d", "m", "e", ".", "t", "x", "t">>
        Listings == {<<>>, <<Readme>>, <<Readme, Mixed>>, <<ConverterName>>}
    IN  {[given |-> TRUE, kind |-> k, name |-> <<>>, files |-> <<>>] :
            k \in {"missing", "special"}}
        \cup {[given |-> TRUE, kind |-> "dir", name |-> <<>>, files |-> l] : l \in Listings}
        \cup {[given |-> TRUE, kind |-> "file", name |-> n, files |-> l] :
                 n \in {ConverterName, Mixed, Readme}, l \in Listings}

\* the clouds write_potree is called on
DecodedClouds ==
    {[points |-> Array("float32", d), colors |-> Array("uint8", ZeroRows(Len(d))),
      intensities |-> Array("float32", ZeroColumn(Len(d)))] :
        d \in {<<<<IntNum(1), IntNum(2), IntNum(-3)>>>>,
               <<<<IntNum(1), IntNum(2), IntNum(-3)>>, <<IntNum(2), IntNum(4), IntNum(-4)>>>>}}

InitPotree ==
    /\ \E c \in DecodedClouds :
          points = c.points /\ colors = c.colors /\ intensities = c.intensities
    /\ outcome = NotInUse /\ ops = <<>>
    /\ DiskIdle
    /\ \E current_file \in {q \in Paths : q.kind # "special"} :
       \E ptc_path \in Paths \cup {[given |-> FALSE, kind |-> "missing", name |-> <<>>,
                                    files |-> <<>>]} :
          potree = [pc |-> "find", current_file |-> current_file, ptc_path |-> ptc_path,
                    potree_exe |-> NoPath, temp_las_file |-> "absent", started |-> FALSE,
                    result |-> "none"]
    /\ driver = NotInUse /\ stream = NotInUse
    /\ ConvIdle /\ FieldsIdle

\* potree_exe = find_potreeconverter(...); if potree_exe is None: return False
PotreeFind ==
    /\ potree # NotInUse /\ potree.pc = "find"
    /\ \E potree_exe \in {find_potreeconverter(potree.current_file, potree.ptc_path)} :
          potree' = [potree EXCEPT !.potree_exe = potree_exe,
                                   !.pc = IF potree_exe.found THEN "write_las" ELSE "done",
                                   !.result = IF potree_exe.found THEN "none" ELSE "False"]
    /\ UNCHANGED <<cloudVars, diskVars, driver, stream, convVars, fieldVars>>

\* self.write_las(temp_las_file): a write that raises in las.write may
\* leave a file that is not complete
PotreeWriteLas ==
    /\ potree # NotInUse /\ potree.pc = "write_las"
    /\ WriteLasCall
    /\ \E left \in {"absent", "partial"} :
          potree' = [potree EXCEPT
                        !.pc = IF outcome'.kind = "True" THEN "run" ELSE "raised",
                        !.temp_las_file = IF outcome'.kind = "True" THEN "written"
                                          ELSE IF outcome'.err = "OSError" THEN left
                                          ELSE "absent"]
    /\ UNCHANGED <<driver, stream>>

\* subprocess.run([...]) without check: the exit status is not looked at;
\* a converter that cannot be started raises
PotreeRun ==
    /\ potree # NotInUse /\ potree.pc = "run"
    /\ \E run \in {"exit 0", "exit 1", "OSError"} :
          potree' = [potree EXCEPT !.pc = IF run = "OSError" THEN "raised" ELSE "remove",
                                   !.started = run # "OSError"]
    /\ UNCHANGED <<cloudVars, diskVars, driver, stream, convVars, fieldVars>>

\* os.remove(temp_las_file); return True
PotreeRemove ==
    /\ potree # NotInUse /\ potree.pc = "remove"
    /\ potree' = [potree EXCEPT !.pc = "done", !.temp_las_file = "absent",
                                !.result = "True"]
    /\ UNCHANGED <<cloudVars, diskVars, driver, stream, convVars, fieldVars>>

NextPotree == PotreeFind \/ PotreeWriteLas \/ PotreeRun \/ PotreeRemove

SpecPotree == InitPotree /\ [][NextPotree]_vars

(***************************************************************************)
(* main.py.  A path is known by its last component, a sequence of          *)
(* characters, and by what the file system holds at it: nothing            *)
(* ("missing"), a file or a directory.                                     *)
(***************************************************************************)
DotLas == <<".", "l", "a", "s">>

DotLaz == <<".", "l", "a", "z">>

DotPly == <<".", "p", "l", "y">>

DotE57 == <<".", "e", "5", "7">>

DotPts == <<".", "p", "t", "s">>

DotPcd == <<".", "p", "c", "d">>

PotreeFormat == <<"p", "o", "t", "r", "e", "e">>

\* the list execute hands to parse_args
extensions == <<DotLas, DotPly, DotE57, DotPts, DotPcd, PotreeFormat>>

\* x in list
Listed(x, list) == \E k \in 1..Len(list) : list[k] = x

\* name.rfind('.'), counted from 1; 0 when there is no dot
LastDot(name) ==
    IF \E i \in 1..Len(name) : name[i] = "."
    THEN CHOOSE i \in 1..Len(name) :
            name[i] = "." /\ \A j \in (i + 1)..Len(name) : name[j] # "."
    ELSE 0

\* PurePath.suffix: from the last dot on, unless the name starts or ends
\* with that dot
suffix(name) ==
    LET i == LastDot(name)
    IN  IF 1 < i /\ i < Len(name) THEN SubSeq(name, i, Len(name)) ELSE <<>>

\* PurePath.stem
stem(name) ==
    LET i == LastDot(name)
    IN  IF 1 < i /\ i < Len(name) THEN SubSeq(name, 1, i - 1) ELSE name

\* what parse_args returns when it returns None, and what argparse does
\* with a value that is not among the choices
NoArgs == [kind |-> "None"]

SystemExit == [kind |-> "SystemExit"]

\* destination_path.exists(): the destination is the file that was given,
\* or the place it resolves to is occupied
exists(destination_path, argv) ==
    \/ /\ destination_path.dir = "parent"
       /\ argv.destination_path.kind = "file"
       /\ destination_path.name = argv.destination_path.name
    \/ argv.occupied

\* parse_args after parser.parse_args(): args.extension is never None (its
\* default is '.las'), so of the five cases the second, third and fifth
\* can be taken
parse_args(valid_extensions, argv) ==
    LET origin_path == argv.origin_path
        provided == argv.destination_path
        given == provided.given
        origin_file_name == stem(origin_path.name)
        joined == origin_file_name \o argv.extension
        resolved ==
            IF given /\ provided.kind = "file"
               /\ Listed(suffix(provided.name), valid_extensions)
            THEN [kind |-> "path", dir |-> "parent", name |-> provided.name]
            ELSE IF given /\ provided.kind = "dir"
            THEN [kind |-> "path", dir |-> "given", name |-> joined]
            ELSE IF ~given
            THEN [kind |-> "path", dir |-> "origin", name |-> joined]
            ELSE NoArgs
        destination_path ==
            IF argv.extension = PotreeFormat
            THEN [resolved EXCEPT !.name = origin_file_name \o <<"_">> \o PotreeFormat]
            ELSE resolved
    IN  IF ~Listed(argv.extension, valid_extensions) THEN SystemExit
        ELSE IF origin_path.kind # "file" THEN NoArgs
        ELSE IF ~Listed(suffix(origin_path.name), valid_extensions) THEN NoArgs
        ELSE IF resolved = NoArgs THEN NoArgs
        ELSE IF ~argv.unsafe /\ exists(destination_path, argv) THEN NoArgs
        ELSE [kind |-> "args", read_path |-> origin_path,
              read_extension |-> suffix(origin_path.name),
              write_path |-> destination_path,
              write_extension |-> argv.extension, verbose |-> argv.verbose]

\* check_file: the path exists and is a file; the look at the memory only
\* logs
check_file(file_path) == file_path.kind = "file"

\* the methods class PointCloud defines
Methods ==
    {"read_e57", "write_e57", "read_las", "write_las", "read_ply", "write_ply",
     "read_pts", "write_pts", "write_potree"}

\* the dictionaries of execute, as the attributes they name
readers ==
    <<<<DotLas, "read_las">>, <<DotLaz, "read_las">>, <<DotPly, "read_ply">>,
      <<DotE57, "read_e57">>, <<DotPts, "read_pts">>, <<DotPcd, "read_pcd">>>>

writers ==
    <<<<DotLas, "write_las">>, <<DotPly, "write_ply">>, <<DotE57, "write_e57">>,
      <<DotPts, "write_pts">>, <<DotPcd, "write_pcd">>>>

\* point_cloud.<name> for every entry of a dictionary display: the first
\* name the class does not define ends the display with an AttributeError
Built(table) == \A k \in 1..Len(table) : table[k][2] \in Methods

\* table[key], for a key that is in the table
Lookup(table, key) == table[CHOOSE k \in 1..Len(table) : table[k][1] = key][2]

(***************************************************************************)
(* execute, statement by statement.                                        *)
(***************************************************************************)
\* the command lines
Argvs ==
    LET Called(s) == <<"a">> \o s
        Origins ==
            {<<"a">>, <<".", "l", "a", "s">>}
            \cup {Called(s) : s \in {DotLas, DotLaz, Upper(DotLas), DotPly,
                                    <<".", "P", "l", "y">>, DotE57, DotPts, DotPcd,
                                    <<".", "t", "x", "t">>}}
        Given ==
            {[given |-> TRUE, kind |-> "dir", name |-> <<"o", "u", "t">>],
             [given |-> TRUE, kind |-> "missing", name |-> <<"b">> \o DotPly]}
            \cup {[given |-> TRUE, kind |-> "file", name |-> <<"b">> \o s] :
                     s \in {DotPly, Upper(DotPly), <<".", "t", "x", "t">>}}
    IN  [origin_path : {[kind |-> k, name |-> n] :
                           k \in {"file", "dir", "missing"}, n \in Origins},
         destination_path : Given \cup {[given |-> FALSE, kind |-> "missing",
                                         name |-> <<>>]},
         extension : {DotLas, DotPly, DotE57, DotPts, DotPcd, PotreeFormat, DotLaz},
         unsafe : BOOLEAN,
         verbose : {0, 2},
         occupied : BOOLEAN]

InitDriver ==
    /\ NewPointCloud
    /\ DiskIdle
    /\ potree = NotInUse /\ stream = NotInUse
    /\ \E argv \in Argvs :
          driver = [pc |-> "parse_args", argv |-> argv, args |-> NoArgs,
                    raised |-> "nothing"]
    /\ ConvIdle /\ FieldsIdle

\* args = parse_args(extensions); if args is None: ... return
DriverParseArgs ==
    /\ driver # NotInUse /\ driver.pc = "parse_args"
    /\ \E args \in {parse_args(extensions, driver.argv)} :
          driver' = [driver EXCEPT
                        !.args = args,
                        !.pc = IF args.kind = "args" THEN "check_file" ELSE "done",
                        !.raised = IF args = SystemExit THEN "SystemExit"
                                   ELSE "nothing"]
    /\ UNCHANGED <<cloudVars, diskVars, potree, stream, convVars, fieldVars>>

\* if not check_file(read_path, verbose): ... return
DriverCheckFile ==
    /\ driver # NotInUse /\ driver.pc = "check_file"
    /\ driver' = [driver EXCEPT
                     !.pc = IF check_file(driver.args.read_path) THEN "tables"
                            ELSE "done"]
    /\ UNCHANGED <<cloudVars, diskVars, potree, stream, convVars, fieldVars>>

\* point_cloud = PointCloud.PointCloud(); readers = {...}; writers = {...}:
\* execute goes on to the conversion only with both dictionaries built
DriverTables ==
    /\ driver # NotInUse /\ driver.pc = "tables"
    /\ driver' = [driver EXCEPT
                     !.pc = IF Built(readers) /\ Built(writers) THEN "convert"
                            ELSE "raised",
                     !.raised = IF Built(readers) /\ Built(writers) THEN "nothing"
                                ELSE "AttributeError"]
    /\ UNCHANGED <<cloudVars, diskVars, potree, stream, convVars, fieldVars>>

NextDriver == DriverParseArgs \/ DriverCheckFile \/ DriverTables

SpecDriver == InitDriver /\ [][NextDriver]_vars

(***************************************************************************)
(* The writers of custom_overwrites that report their progress.  A payload *)
(* is known by its length in the units the writer slices it by: the bytes  *)
(* of a bytes object, the items of a memoryview, the records of a PLY      *)
(* element with list properties, the points of an E57 scan.  A write is    *)
(* the pair of the positions it starts at and ends before.                 *)
(***************************************************************************)
BytesChunk == 1024

PointsChunk == 1000000

MaxChunks == 130

\* chunk_size of the writer
chunk_size(kind) ==
    IF kind = "e57" THEN PointsChunk ELSE IF kind = "ply_list" THEN 1 ELSE BytesChunk

\* min(a, b)
Least(a, b) == IF a <= b THEN a ELSE b

\* int((part / whole) * 100), the division and the product in float64
PercentOf(part, whole) ==
    BigToNat(TruncMag(FMul(FDiv(IntNum(part), IntNum(whole), "float64"),
                           IntNum(100), "float64")))

\* math.ceil(i / n) for 0 <= i < n: the quotient is 0.0 for i = 0 and lies
\* above 0 and not above 1 otherwise
CeilOfShare(i, n) == IF i = 0 THEN 0 ELSE 1

\* a loop whose last chunk ends one unit before the end of the payload
write_points_short_of_end(s) ==
    LET chunk_start == s.at
        chunk_end == Least(chunk_start + BytesChunk, s.total_size - 1)
        bytes_written == s.bytes_written + (chunk_end - chunk_start)
    IN  CHOOSE next \in
            {[s EXCEPT !.out = Append(@, <<chunk_start, chunk_end>>),
                       !.bytes_written = bytes_written,
                       !.progress = new_progress,
                       !.bar = IF new_progress # s.progress /\ s.progress_bar
                               THEN @ + 1 ELSE @,
                       !.printed = IF new_progress # s.progress /\ ~s.progress_bar
                                   THEN Append(@, new_progress) ELSE @,
                       !.at = chunk_start + BytesChunk] :
                new_progress \in {PercentOf(bytes_written, s.total_size)}} : TRUE

\* one turn of the loop of CustomUncompressedPointWriter.write_points; the
\* loops of CustomPcdPointCloud._save_as_binary and of
\* CustomPlyElement.write_with_progress have the same text
write_points(s) ==
    LET chunk_start == s.at
        chunk_end == Least(chunk_start + BytesChunk, s.total_size)
        bytes_written == s.bytes_written + (chunk_end - chunk_start)
    IN  CHOOSE next \in
            {[s EXCEPT !.out = Append(@, <<chunk_start, chunk_end>>),
                       !.bytes_written = bytes_written,
                       !.progress = new_progress,
                       !.bar = IF new_progress # s.progress /\ s.progress_bar
                               THEN @ + 1 ELSE @,
                       !.printed = IF new_progress # s.progress /\ ~s.progress_bar
                                   THEN Append(@, new_progress) ELSE @,
                       !.at = chunk_start + BytesChunk] :
                new_progress \in {PercentOf(bytes_written, s.total_size)}} : TRUE

\* one turn of the loop of CustomPlyElement._write_bin
write_bin(s) ==
    [s EXCEPT !.out = Append(@, <<s.at, s.at + 1>>),
              !.bar = IF s.progress_bar THEN @ + 1 ELSE @,
              !.printed = IF s.progress_bar THEN @
                          ELSE Append(@, CeilOfShare(s.at, s.total_size)),
              !.at = @ + 1]

\* one turn of the loop of CustomE57.write_scan_raw
write_scan_raw(s) ==
    LET current_index == s.at
        current_chunk == Least(s.total_size - current_index, PointsChunk)
    IN  CHOOSE next \in
            {[s EXCEPT !.out = Append(@, <<current_index, current_index + current_chunk>>),
                       !.progress = new_progress,
                       !.bar = IF s.progress_bar THEN @ + (new_progress - s.progress)
                               ELSE @,
                       !.printed = IF ~s.progress_bar /\ s.verbosity = 3
                                      /\ new_progress - s.progress > 0
                                   THEN Append(@, new_progress) ELSE @,
                       !.at = current_index + current_chunk] :
                new_progress \in {PercentOf(current_index, s.total_size)}} : TRUE

\* what follows the loop of CustomE57.write_scan_raw
write_scan_raw_end(s) ==
    [s EXCEPT !.printed = IF s.verbosity = 3 THEN Append(@, 100) ELSE @,
              !.bar = IF s.verbosity # 3 /\ s.progress_bar THEN @ + (100 - s.progress)
                      ELSE @,
              !.pc = "done"]

(***************************************************************************)
(* A writer as a state machine: the call, the turns of its loop, the end.  *)
(***************************************************************************)
\* the payloads: none, less than a chunk, a chunk and its neighbours, some
\* chunks, and more chunks than there are percents
Lengths(c) ==
    {0, 1, c - 1, c, c + 1, 3 * c, 7 * c + c \div 2, MaxChunks * c + 5}

Writers == {"las", "pcd", "ply", "ply_list", "e57"}

InitStream ==
    /\ NewPointCloud
    /\ DiskIdle
    /\ ConvIdle /\ FieldsIdle
    /\ potree = NotInUse /\ driver = NotInUse
    /\ \E kind \in Writers : \E verbosity \in 0..3 :
       \E total_size \in Lengths(chunk_size(kind)) :
          stream = [kind |-> kind, verbosity |-> verbosity, total_size |-> total_size,
                    pc |-> "call", at |-> 0, bytes_written |-> 0, progress |-> 0,
                    progress_bar |-> FALSE, bar |-> 0, printed |-> <<>>, out |-> <<>>]

\* if self.verbosity != 2 and self.verbosity != 3: the write of the library
StreamAtOnce ==
    /\ stream # NotInUse /\ stream.pc = "call"
    /\ stream.kind # "e57" /\ stream.verbosity \notin {2, 3}
    /\ stream' = [stream EXCEPT !.out = <<<<0, stream.total_size>>>>, !.pc = "done"]
    /\ UNCHANGED <<cloudVars, diskVars, potree, driver, convVars, fieldVars>>

\* progress_bar = None; if self.verbosity == 2: progress_bar = tqdm(...)
StreamEnter ==
    /\ stream # NotInUse /\ stream.pc = "call"
    /\ stream.kind = "e57" \/ stream.verbosity \in {2, 3}
    /\ stream' = [stream EXCEPT !.progress_bar = (stream.verbosity = 2), !.pc = "loop"]
    /\ UNCHANGED <<cloudVars, diskVars, potree, driver, convVars, fieldVars>>

\* for chunk_start in range(0, total_size, chunk_size)
StreamChunk ==
    /\ stream # NotInUse /\ stream.pc = "loop"
    /\ stream.kind \in {"las", "pcd", "ply"}
    /\ stream.at < stream.total_size
    /\ stream' = write_points(stream)
    /\ UNCHANGED <<cloudVars, diskVars, potree, driver, convVars, fieldVars>>

\* for i in range(len(self.data))
StreamRecord ==
    /\ stream # NotInUse /\ stream.pc = "loop"
    /\ stream.kind = "ply_list"
    /\ stream.at < stream.total_size
    /\ stream' = write_bin(stream)
    /\ UNCHANGED <<cloudVars, diskVars, potree, driver, convVars, fieldVars>>

\* while current_index != n_points
StreamPoints ==
    /\ stream # NotInUse /\ stream.pc = "loop"
    /\ stream.kind = "e57"
    /\ stream.at # stream.total_size
    /\ stream' = write_scan_raw(stream)
    /\ UNCHANGED <<cloudVars, diskVars, potree, driver, convVars, fieldVars>>

\* the loop is left: the 1024-byte writers and _write_bin return,
\* write_scan_raw reports the end and closes its writer
StreamLeave ==
    /\ stream # NotInUse /\ stream.pc = "loop"
    /\ IF stream.kind = "e57" THEN stream.at = stream.total_size
       ELSE stream.at >= stream.total_size
    /\ stream' = IF stream.kind = "e57" THEN write_scan_raw_end(stream)
                 ELSE [stream EXCEPT !.pc = "done"]
    /\ UNCHANGED <<cloudVars, diskVars, potree, driver, convVars, fieldVars>>

NextStream ==
    StreamAtOnce \/ StreamEnter \/ StreamChunk \/ StreamRecord \/ StreamPoints
        \/ StreamLeave

SpecStream == InitStream /\ [][NextStream]_vars

(***************************************************************************)
(* The claims about the conversion engine, under Spec.                     *)
(***************************************************************************)
ConvertName == "convert_to_type_incl_scaling"

\* the call a step makes
NewCall == calls'[Len(calls')]

\* the value of an integer element that fits TLC's integers
ValueOf(x) == IF x.neg THEN -BigToNat(MagOf(x)) ELSE BigToNat(MagOf(x))

\* C1: convert_to_type_incl_scaling called with array.dtype equal to the
\* target type returns the very same array, every value unchanged, for every
\* supported type and both values of the flag: no rescaling, no warning, no
\* error.
C1_SameTypeIsIdentity ==
    [][(/\ calls' # calls
        /\ NewCall.fn = ConvertName
        /\ NewCall.target = array.dtype
        /\ array.dtype \in SupportedTypes)
       => (/\ result'.kind = "array"
           /\ array' = array
           /\ result'.dtype = array.dtype
           /\ result'.data = array.data
           /\ ~result'.warned)]_vars

C1_Witness ==
    /\ Len(calls) = 1
    /\ calls[1].fn = ConvertName
    /\ calls[1].target = "float32"
    /\ ~calls[1].float_max_is_1
    /\ original = Array("float32", <<FDiv(IntNum(1), IntNum(3), "float32")>>)
    /\ result.kind = "array"
    /\ array = original

\* C2: converting a uint8 array to uint16 maps every value v in 0..255 to
\* exactly v * 256, so 0 to 0 and 255 to 65280, whatever float_max_is_1 is.
C2_Uint8ToUint16Times256 ==
    (/\ Len(calls) = 1
     /\ original.dtype = "uint8"
     /\ calls[1].target = "uint16")
    => (/\ result.kind = "array"
        /\ result.dtype = "uint16"
        /\ Len(result.data) = Len(original.data)
        /\ \A i \in 1..Len(original.data) :
              ValueOf(result.data[i]) = 256 * ValueOf(original.data[i]))

C2_Witness ==
    /\ Len(calls) = 1
    /\ calls[1].fn = ConvertName
    /\ calls[1].target = "uint16"
    /\ ~calls[1].float_max_is_1
    /\ original = Array("uint8", <<IntNum(255)>>)
    /\ result.data = <<IntNum(65280)>>

\* |a - b| for two integers that are not negative
Distance(a, b) ==
    IF BCmp(MagOf(a), MagOf(b)) >= 0
    THEN BSub(MagOf(a), MagOf(b)) ELSE BSub(MagOf(b), MagOf(a))

RoundTripDone ==
    /\ Len(calls) = 2
    /\ calls[1].fn = ConvertName
    /\ calls[2].fn = ConvertName
    /\ original.dtype \in UnsignedTypes
    /\ calls[1].target \in UnsignedTypes
    /\ calls[2].target = original.dtype

\* C3: for unsigned integer types T1 narrower than T2 and every in-range
\* value v, T1 -> T2 -> T1 returns exactly v, and T2 -> T1 -> T2 returns a
\* value that differs from v by less than card(T2) / card(T1).
C3_RoundTripWithinOneStep ==
    RoundTripDone =>
        /\ result.kind = "array"
        /\ Len(array.data) = Len(original.data)
        /\ Width(original.dtype) < Width(calls[1].target) => array = original
        /\ Width(original.dtype) > Width(calls[1].target) =>
              \A i \in 1..Len(original.data) :
                 BCmp(Distance(array.data[i], original.data[i]),
                      Pow2Big(Width(original.dtype) - Width(calls[1].target))) < 0

\* C4: convert_to_type_incl_scaling fails with an unsupported-type error
\* whenever the array's type or the target type is neither an integer nor a
\* floating-point kind; it never returns a value, and never None, for such
\* a pair.
C4_UnsupportedTypeRaises ==
    (/\ Len(calls) = 1
     /\ calls[1].fn = ConvertName
     /\ (original.dtype \in OtherTypes \/ calls[1].target \in OtherTypes))
    => (result.kind = "raise" /\ result.err = "ValueError")

\* C5: the result of convert_to_type_incl_scaling has exactly the requested
\* target type for every supported pair of source and target type, with
\* either flag value.
C5_ResultHasTargetType ==
    (/\ Len(calls) = 1
     /\ calls[1].fn = ConvertName
     /\ calls[1].asDtype
     /\ original.dtype \in SupportedTypes
     /\ calls[1].target \in SupportedTypes)
    => (result.kind = "array" /\ result.dtype = calls[1].target)

\* C6: an integer conversion from a signed source type to an unsigned
\* target type always emits the sign-loss warning and always returns a
\* converted array, whether or not the array holds negative values; no
\* warning is emitted for unsigned -> unsigned, signed -> signed or
\* unsigned -> signed.
C6_SignLossWarnedNeverFatal ==
    [][(/\ calls' # calls
        /\ IsInteger(array.dtype)
        /\ IsInteger(NewCall.target))
       => (/\ result'.kind = "array"
           /\ result'.dtype = NewCall.target
           /\ Len(result'.data) = Len(array.data)
           /\ result'.warned <=>
                 (array.dtype \in SignedTypes /\ NewCall.target \in UnsignedTypes))]_vars

C6_Witness ==
    /\ Len(calls) = 1
    /\ original = Array("int8", <<IntNum(-1)>>)
    /\ calls[1].target = "uint8"
    /\ result.kind = "array"
    /\ result.dtype = "uint8"
    /\ result.warned

(***************************************************************************)
(* The claims about the resolver, under SpecFields.                        *)
(***************************************************************************)
Intensit == <<"i", "n", "t", "e", "n", "s", "i", "t">>

\* C7: map_field_names applied to X, Y, Z, Red, Green, Blue, Intensity, in
\* any letter case, returns x -> X, y -> Y, z -> Z, r -> Red, g -> Green,
\* b -> Blue, intensity -> Intensity with no role left unresolved, in both
\* copies of the resolver.
C7_CanonicalNamesResolved ==
    (returned /\ names \in CanonicalLists) =>
        mapping = [r \in Roles |->
                      CASE r = "x" -> Named(names[1])
                        [] r = "y" -> Named(names[2])
                        [] r = "z" -> Named(names[3])
                        [] r = "r" -> Named(names[4])
                        [] r = "g" -> Named(names[5])
                        [] r = "b" -> Named(names[6])
                        [] r = "intensity" -> Named(names[7])]

C7_Witness ==
    /\ returned
    /\ impl = "PointCloud"
    /\ names = <<<<"x">>, <<"Y">>, <<"z">>, <<"R", "E", "D">>, <<"G", "r", "e", "e", "n">>, <<"b", "l", "u", "e">>, <<"I", "N", "T", "E", "N", "S", "I", "T", "Y">>>>
    /\ mapping["intensity"] = Named(<<"I", "N", "T", "E", "N", "S", "I", "T", "Y">>)
    /\ mapping["r"] = Named(<<"R", "E", "D">>)

\* the first name of the list that contains "intensit"
HasIntensity(k) == Contains(Intensit, Lower(names[k]))

\* C8: for every name list with a name containing "intensit", whatever the
\* letter case, the resolver maps the intensity role to the first such name,
\* wherever it stands relative to the x/y/z names, in PointCloud.py as in
\* util.py.
C8_IntensityGoesToFirstIntensit ==
    (returned /\ \E k \in 1..Len(names) : HasIntensity(k)) =>
        mapping["intensity"] =
            Named(names[CHOOSE k \in 1..Len(names) :
                           HasIntensity(k) /\ \A j \in 1..(k - 1) : ~HasIntensity(j)])

\* C9: during the pass of map_field_names, once a role has a raw name no
\* later name replaces it: at every step each role is still unset or holds
\* the value of its first assignment, which is the name being looked at when
\* it was assigned.
C9_FirstAssignmentStays ==
    [][\A r \in Roles :
          /\ ~mapping[r].isNone => mapping'[r] = mapping[r]
          /\ mapping'[r] # mapping[r] => mapping'[r] = Named(names[idx + 1])]_vars

C9_Witness ==
    /\ idx = 2
    /\ names[1] = <<"x", "y", "z">>
    /\ names[2] = <<"b", "o", "x", "i", "d">>
    /\ mapping["x"] = Named(<<"x", "y", "z">>)
    /\ Matches("x", Lower(names[2]))

\* C10: for every name list, the empty one and those without a recognisable
\* name included, map_field_names returns a mapping with exactly the seven
\* keys x, y, z, r, g, b, intensity, each value None or an element of the
\* list as spelled there, and no list element is assigned to two roles.
C10_MappingWellFormed ==
    /\ [](/\ DOMAIN mapping = Roles
          /\ \A r \in Roles :
                \/ mapping[r].isNone
                \/ \E k \in 1..idx : mapping[r] = Named(names[k]))
    /\ [][Cardinality({r \in Roles : mapping'[r] # mapping[r]}) <= 1]_vars

C10_Witness ==
    /\ returned
    /\ names = <<<<"s", "c", "a", "n">>, <<"x", "y", "z">>>>
    /\ mapping["x"] = Named(<<"x", "y", "z">>)
    /\ \A r \in Roles \ {"x"} : mapping[r].isNone

(***************************************************************************)
(* The claims about the .pts codec, under SpecPts.                         *)
(***************************************************************************)
LastOp == ops[Len(ops)]

\* the text on disk has the layout write_pts produces for integer colours:
\* the header, the number of rows, the rows
WrittenLayout ==
    /\ Len(lines) >= 2
    /\ lines[1] = <<<<"X">>, <<"Y">>, <<"Z">>, <<"I", "n", "t", "e", "n", "s", "i", "t", "y">>,
                    <<"R">>, <<"G">>, <<"B">>>>
    /\ IsDigitLine(lines[2])
    /\ Len(lines) = DigitsNat(lines[2][1]) + 2
    /\ \A i \in 3..Len(lines) : Len(lines[i]) = Columns

\* C14: a .pts file with the header line "X Y Z Intensity R G B", a second
\* line with the point count N and then N data rows, the layout write_pts
\* produces, is decoded by read_pts into N points: the header scan skips
\* exactly the two header lines, and R, G, B are uint8 when the colour tokens
\* of the first data row are digits only.
C14_WrittenPtsIsReadBack ==
    (ops # <<>> /\ LastOp = "read_pts" /\ WrittenLayout) =>
        /\ get_skip_lines_pts(lines) = 2
        /\ outcome.kind = "True"
        /\ Len(points.data) = DigitsNat(lines[2][1])
        /\ (Len(lines) > 2 /\ \A c \in 5..Columns : IsDigit(lines[3][c]))
              => colors.dtype = "uint8"

\* the first data row of the text read_pts was given
FirstRow == SampleOf(lines, get_skip_lines_pts(lines))

\* C15: read_pts always yields points and intensities of type float32,
\* whatever the text of the first data row is; only the three colour columns
\* change type, uint8 exactly when their first-row tokens are digits only and
\* float32 otherwise.
C15_OnlyColoursChangeType ==
    (ops # <<>> /\ LastOp = "read_pts" /\ outcome.kind = "True" /\ Len(points.data) > 0) =>
        /\ points.dtype = "float32"
        /\ intensities.dtype = "float32"
        /\ colors.dtype = IF \A c \in 5..Columns : IsDigit(FirstRow[c])
                          THEN "uint8" ELSE "float32"

\* the number a token of a written row stands for, in the type of its column
ReadBack(tok, t) ==
    IF IsFloating(t) THEN FCast(ParseFloat(tok), t) ELSE ParseFloat(tok)

\* C16: write_pts on a model with N points produces exactly N + 2 lines:
\* line 1 is "X Y Z Intensity R G B" with an "f" after each of R, G, B
\* exactly when the colours are floating-point after write_pts's own
\* conversion, line 2 is the decimal N, and line i + 2 holds the seven values
\* x y z intensity r g b of point i, in that order.
C16_PtsLayout ==
    (ops # <<>> /\ LastOp = "write_pts" /\ outcome.kind = "True") =>
        LET n == Len(points.data)
            mark == IF IsFloating(colors.dtype) THEN <<"f">> ELSE <<>>
        IN  /\ Len(lines) = n + 2
            /\ lines[1] = <<<<"X">>, <<"Y">>, <<"Z">>,
                            <<"I", "n", "t", "e", "n", "s", "i", "t", "y">>,
                            <<"R">> \o mark, <<"G">> \o mark, <<"B">> \o mark>>
            /\ Len(lines[2]) = 1 /\ IsDigit(lines[2][1]) /\ DigitsNat(lines[2][1]) = n
            /\ \A i \in 1..n :
                  /\ Len(lines[i + 2]) = 7
                  /\ \A c \in 1..3 :
                        /\ ReadBack(lines[i + 2][c], points.dtype) = points.data[i][c]
                        /\ ReadBack(lines[i + 2][c + 4], colors.dtype) = colors.data[i][c]
                  /\ ReadBack(lines[i + 2][4], intensities.dtype) = intensities.data[i]

C16_Witness ==
    /\ ops = <<"write_pts">>
    /\ outcome.kind = "True"
    /\ Len(points.data) = 2
    /\ colors.dtype = "float32"
    /\ Len(lines) = 4
    /\ lines[1][5] = <<"R", "f">>
    /\ lines[4] = <<<<"0", ".", "5">>, <<"-", "2", ".", "0">>, <<"1", ".", "2", "5">>,
                    <<"1", ".", "0">>, <<"1", ".", "0">>, <<"1", ".", "0">>, <<"1", ".", "0">>>>

(***************************************************************************)
(* The claims about the E57, LAS and PLY codecs, under SpecCodec.          *)
(***************************************************************************)
Decoders == {"read_e57", "read_las", "read_ply"}

Encoders == {"write_e57", "write_las", "write_ply"}

\* the file has no field for one of the roles r, g, b
LacksColour(f) ==
    \E role \in {"r", "g", "b"} :
       \A k \in 1..Len(f.fields) : ~Matches(role, Lower(f.fields[k].name))

\* C11: decoding a file that has no colour fields succeeds and yields a
\* colors array with exactly N rows, N the number of points, every entry
\* zero, of the default colour type uint8, for the E57, LAS and PLY decoders
\* alike.
C11_NoColourGivesZeros ==
    (ops # <<>> /\ LastOp \in Decoders /\ ~file.malformed /\ LacksColour(file)) =>
        /\ outcome.kind = "True"
        /\ colors = Array("uint8", ZeroRows(file.count))

\* C12: after a decode call that returns success, whichever colour and
\* intensity fields the file has, points, colors and intensities are all set
\* and have the same length, and they still are after an encode call that
\* follows.
C12_LengthsAgree ==
    (ops # <<>> /\ (outcome.kind = "True" \/ LastOp \in Encoders)) =>
        /\ points # Unset /\ colors # Unset /\ intensities # Unset
        /\ Len(points.data) = Len(colors.data)
        /\ Len(points.data) = Len(intensities.data)

\* C13: when write_las encodes floating-point points, on every axis the
\* offset is the least coordinate, the scale is a positive number, and for
\* every point the stored integer (p - offset) / scale is a number of the
\* range 0..INT32_MAX, also when all points share a coordinate or there is
\* one point only.
C13_LasQuantizationInRange ==
    (ops # <<>> /\ LastOp = "write_las" /\ IsFloating(points.dtype)
        /\ Len(points.data) > 0) =>
        /\ written.kind = "las"
        /\ \A k \in 1..3 :
              /\ written.header.scales[k].cls = "fin"
              /\ ~IsZero(written.header.scales[k]) /\ ~written.header.scales[k].neg
              /\ \A r \in 1..Len(points.data) :
                    /\ ~NumLess(points.data[r][k], written.header.offsets[k])
                    /\ written.xyz[r][k].cls = "fin"
                    /\ ~written.xyz[r][k].neg
                    /\ BCmp(MagOf(written.xyz[r][k]), IinfoMax("int32")) <= 0

\* C20: a decode of a malformed file and an encode to a target that cannot
\* be written end with the codec returning False; no exception leaves the
\* codec.
C20_FailureIsReturned ==
    (/\ ops # <<>>
     /\ \/ LastOp \in Decoders /\ file.malformed
        \/ LastOp \in Encoders /\ ~written.writable) =>
        outcome.kind = "False"

(***************************************************************************)
(* The claims about write_potree, under SpecPotree.                        *)
(***************************************************************************)
\* C18: once the temporary LAS file has been written, or has started to be
\* written, it is gone when write_potree is left, on every exit path: the
\* converter exits with success, it exits with another status, starting it
\* raises, writing the temporary file raises.
C18_TempFileRemovedOnExit ==
    potree.pc \in {"done", "raised"} => potree.temp_las_file = "absent"

\* a directory's listing holds the converter, whatever the case of its name
Holds(files) == \E k \in 1..Len(files) : Lower(files[k]) = ConverterName

\* the converter cannot be located: the explicit path is missing, is a
\* directory without it, or is a file of another name or no file at all; or
\* no path is given and nothing is found next to the running script
NotLocatable ==
    IF potree.ptc_path.given
    THEN \/ potree.ptc_path.kind \in {"missing", "special"}
         \/ potree.ptc_path.kind = "dir" /\ ~Holds(potree.ptc_path.files)
         \/ potree.ptc_path.kind = "file" /\ Lower(potree.ptc_path.name) # ConverterName
    ELSE potree.current_file.kind # "file" \/ ~Holds(potree.current_file.files)

\* C19: if the converter executable cannot be located, write_potree returns
\* False, and neither is the temporary LAS file written nor an external
\* process started.
C19_NoConverterNoWork ==
    NotLocatable =>
        /\ potree.pc \in {"find", "done"}
        /\ potree.pc = "done" => potree.result = "False"
        /\ potree.temp_las_file = "absent" /\ ~potree.started
        /\ ops = <<>> /\ written = NotInUse

C19_Witness ==
    /\ potree.pc = "done" /\ potree.result = "False"
    /\ potree.ptc_path.given /\ potree.ptc_path.kind = "dir"
    /\ ~Holds(potree.ptc_path.files)
    /\ potree.current_file.kind = "file" /\ Holds(potree.current_file.files)
    /\ ops = <<>>

(***************************************************************************)
(* The claims about the driver, under SpecDriver.                          *)
(***************************************************************************)
\* the origin path with the suffix the codec table is written in: lowered,
\* and .las for .laz
Canonical(argv) ==
    LET name == argv.origin_path.name
        low == Lower(suffix(name))
    IN  [argv EXCEPT !.origin_path.name =
            stem(name) \o (IF low = DotLaz THEN DotLas ELSE low)]

\* the reader execute looks up for what parse_args returned
ReaderOf(args) ==
    IF args.kind = "args" /\ Listed(args.read_extension, <<DotLas, DotLaz, DotPly, DotE57, DotPts, DotPcd>>)
    THEN Lookup(readers, args.read_extension)
    ELSE "none"

\* C17: an origin path ending in .laz, .LAS or .Ply passes the validation
\* of parse_args and is given the reader its lowercase .las / .ply form is
\* given.
C17_SuffixCaseInsensitive ==
    (/\ driver # NotInUse
     /\ driver.pc # "parse_args"
     /\ suffix(driver.argv.origin_path.name)
            \in {DotLaz, Upper(DotLas), <<".", "P", "l", "y">>})
    => LET twin == parse_args(extensions, Canonical(driver.argv))
       IN  /\ (driver.args.kind = "args") = (twin.kind = "args")
           /\ ReaderOf(driver.args) = ReaderOf(twin)

\* -destination_path names a file whose suffix is a valid extension
DestinationIsValidFile(argv) ==
    /\ argv.destination_path.given
    /\ argv.destination_path.kind = "file"
    /\ Listed(suffix(argv.destination_path.name), extensions)

\* C21: when -destination_path names a file with a valid extension, the
\* destination parse_args returns is that path and the format it returns is
\* the suffix of that path, whatever -extension is.
C21_DestinationFileDecides ==
    (/\ driver # NotInUse
     /\ driver.pc # "parse_args"
     /\ driver.args.kind = "args"
     /\ DestinationIsValidFile(driver.argv))
    => /\ driver.args.write_path =
              [kind |-> "path", dir |-> "parent",
               name |-> driver.argv.destination_path.name]
       /\ driver.args.write_extension = suffix(driver.argv.destination_path.name)

\* what parse_args returns for the command line when -unsafe is given
Resolved(argv) == parse_args(extensions, [argv EXCEPT !.unsafe = TRUE])

\* the command line resolves to a destination at which something exists
DestinationTaken(argv) ==
    /\ Resolved(argv).kind = "args"
    /\ exists(Resolved(argv).write_path, argv)

\* no reader, no writer and no converter has been invoked
NothingInvoked ==
    /\ points = Unset /\ colors = Unset /\ intensities = Unset
    /\ ops = <<>> /\ outcome = NotInUse
    /\ written = NotInUse /\ potree = NotInUse

\* C22: without -unsafe, a destination at which a file or folder exists
\* makes parse_args return None and execute end with no reader, no writer
\* and no converter invoked; with -unsafe the run goes on to read and write.
C22_NoOverwriteUnlessUnsafe ==
    (/\ driver # NotInUse
     /\ driver.pc # "parse_args"
     /\ DestinationTaken(driver.argv))
    => IF driver.argv.unsafe
       THEN driver.args.kind = "args" /\ driver.pc \notin {"done", "raised"}
       ELSE driver.args = NoArgs /\ driver.pc = "done" /\ NothingInvoked

(***************************************************************************)
(* More claims about the .pts codec, under SpecPts.                        *)
(***************************************************************************)
\* the lines that contain a space and do not start with "//"
FirstDataLines(ls) == {i \in 1..Len(ls) : HasBlank(ls[i]) /\ ~IsCommentLine(ls[i])}

\* the number of lines before the first data line; without a data line the
\* number of comment lines and lone numeric lines
LinesBeforeData(ls) ==
    IF FirstDataLines(ls) = {}
    THEN Cardinality({i \in 1..Len(ls) : IsCommentLine(ls[i]) \/ IsDigitLine(ls[i])})
    ELSE (CHOOSE i \in FirstDataLines(ls) : \A j \in FirstDataLines(ls) : i <= j) - 1

\* C24: get_skip_lines_pts returns the number of lines that precede the
\* first data line, blank lines and single-token lines that are no number
\* included, so that skipping that many lines ends on the first data line;
\* without a data line it returns the number of comment and lone numeric
\* lines.
C24_SkipLinesReachFirstDataLine ==
    (ops # <<>> /\ ops[Len(ops)] = "read_pts")
    => get_skip_lines_pts(lines) = LinesBeforeData(lines)

(***************************************************************************)
(* More claims about the conversion engine, under Spec.                    *)
(***************************************************************************)
\* |v| times or divided by the ratio of the cardinalities 2^(Width(src)-1)
\* and 2^Width(t), truncated
ScaledMagnitude(v, src, t) ==
    IF Width(src) - 1 > Width(t)
    THEN BShr(MagOf(v), Width(src) - 1 - Width(t))
    ELSE BShl(MagOf(v), Width(t) - (Width(src) - 1))

\* C25: an integer conversion from a signed source type to an unsigned
\* target type maps every value v, negative or not, to the magnitude |v|
\* scaled by the ratio of the cardinalities and truncated, and the result
\* lies between 0 and the maximum of the target type.
C25_SignedToUnsignedIsScaledMagnitude ==
    [][(/\ calls' # calls
        /\ array.dtype \in SignedTypes
        /\ NewCall.target \in UnsignedTypes)
       => (/\ result'.kind = "array"
           /\ Len(result'.data) = Len(array.data)
           /\ \A i \in 1..Len(array.data) :
                 /\ result'.data[i] =
                        MagNum(FALSE, ScaledMagnitude(array.data[i], array.dtype,
                                                      NewCall.target))
                 /\ InIntRange(FALSE, MagOf(result'.data[i]), NewCall.target))]_vars

(***************************************************************************)
(* More claims about the codecs, under SpecCodec.                          *)
(***************************************************************************)
\* a float between 0 and 1
InUnitRange(x) == x.cls = "fin" /\ (IsZero(x) \/ ~x.neg) /\ ~NumLess(IntNum(1), x)

\* x of the range 0..1 on the 16 bit range of LAS: x times 65535, truncated
OnLasRange(x) == MagNum(FALSE, TruncMag(FMul(x, IntNum(65535), "float64")))

\* C26: write_las of a cloud whose colours and intensities are floats
\* between 0 and 1 writes both on the full 16 bit range, 0.0 as 0 and 1.0
\* as 65535 and what lies between in proportion and truncated, the
\* intensity as every colour channel.
C26_UnitFloatsFillLasRange ==
    [][(/\ ops' = Append(ops, "write_las")
        /\ outcome'.kind = "True"
        /\ IsFloating(colors.dtype) /\ IsFloating(intensities.dtype)
        /\ \A r \in 1..Len(colors.data) : \A k \in 1..3 : InUnitRange(colors.data[r][k])
        /\ \A i \in 1..Len(intensities.data) : InUnitRange(intensities.data[i]))
       => (/\ colors'.dtype = "uint16"
           /\ \A r \in 1..Len(colors.data) : \A k \in 1..3 :
                 colors'.data[r][k] = OnLasRange(colors.data[r][k])
           /\ Len(written'.intensity) = Len(intensities.data)
           /\ \A i \in 1..Len(intensities.data) :
                 written'.intensity[i] = OnLasRange(intensities.data[i]))]_vars

(***************************************************************************)
(* The claims about the writers that report progress, under SpecStream.    *)
(***************************************************************************)
\* the writes follow one another from the first unit to the last: every
\* unit of the payload is written once and in its place
InOrderOnce(out, total_size) ==
    /\ \A k \in 1..Len(out) :
          /\ out[k][1] = (IF k = 1 THEN 0 ELSE out[k - 1][2])
          /\ out[k][1] <= out[k][2]
    /\ (IF out = <<>> THEN 0 ELSE out[Len(out)][2]) = total_size

\* the writers with a loop over chunks
Chunked == {"las", "pcd", "ply", "e57"}

\* C27: the 1024-byte loops of the LAS, PCD and PLY writers and the
\* 1,000,000-point loop of the E57 writer end for every length of the
\* payload (the loop makes no more turns than the payload has chunks, and
\* the E57 loop never steps over the end it waits for), and when they have
\* ended every byte or point has been written once and in order, as by
\* the one write made at verbosity 0 or 1.
C27_ChunkedWriteIsWholeWrite ==
    (stream # NotInUse /\ stream.kind \in Chunked)
    => /\ Len(stream.out) <= stream.total_size \div chunk_size(stream.kind) + 1
       /\ stream.kind = "e57" => stream.at <= stream.total_size
       /\ stream.pc = "done" => InOrderOnce(stream.out, stream.total_size)

C27_Witness ==
    /\ stream # NotInUse
    /\ stream.kind = "las" /\ stream.verbosity = 3
    /\ stream.total_size = 7 * BytesChunk + BytesChunk \div 2
    /\ stream.pc = "done"
    /\ Len(stream.out) = 8
    /\ stream.out[8] = <<7 * BytesChunk, stream.total_size>>

\* the numbers of a sequence rise from each to the next
Rising(seq) == \A k \in 1..(Len(seq) - 1) : seq[k] < seq[k + 1]

\* C28: a writer at verbosity 2 or 3 on a payload that is not empty never
\* reports more than 100, and has reported exactly 100 when it has ended:
\* at verbosity 3 the printed percentages rise strictly and the last is
\* 100, at verbosity 2 the bar has advanced by 100 in sum; for every
\* length of the payload, and for PLY elements with list properties too.
C28_ProgressEndsAtHundred ==
    (/\ stream # NotInUse
     /\ stream.verbosity \in {2, 3}
     /\ stream.total_size > 0)
    => /\ stream.bar <= 100
       /\ Rising(stream.printed)
       /\ \A k \in 1..Len(stream.printed) : stream.printed[k] <= 100
       /\ stream.pc = "done" =>
             IF stream.verbosity = 3
             THEN stream.printed # <<>> /\ stream.printed[Len(stream.printed)] = 100
             ELSE stream.bar = 100

====
